---------------------------- MODULE Spec2Model ----------------------------
(***************************************************************************)
(* Model of the rule + fallback-classifier category pipelines of the       *)
(* story-gen data scripts (src/data/cluster_tmi.py, cluster_tropes.py,     *)
(* rf_classify.py) and of the scripts that rewrite tmi_clustered.csv       *)
(* (split_being.py, rename_ogre.py).                                       *)
(*                                                                         *)
(* Texts are sequences of words.  A word is a maximal run of letters, and  *)
(* the words of a text are separated by single blanks, so that a regex     *)
(* word boundary (\b) is a boundary between two words of the sequence.     *)
(* A regular expression of the source is a pattern: an optional ^ anchor   *)
(* and parts separated by ".*"; a part is the finite set of phrases        *)
(* (sequences of words) its alternation denotes.                           *)
(***************************************************************************)
EXTENDS Integers, Sequences, FiniteSets, TLC

None == "None"

\* ------------------------------------------------------------------------
\* Bounds of the model
\* ------------------------------------------------------------------------
MaxWords == 2

MaxDescWords == 1

\* ------------------------------------------------------------------------
\* Words, lower-casing, patterns
\* ------------------------------------------------------------------------
\* Motif-name words the inputs are drawn from; three carry a capital.
TmiVocab == {"tabu", "Tabu", "king", "King", "the", "of", "origin", "castle", "fox",
             "magic", "sword", "fairy", "god", "gods", "witch", "giant", "bread", "man",
             "punishment", "for"}

\* str.lower() on the words of the vocabulary.
UpperWords ==
    [w \in {"Tabu", "King", "The", "Hero", "Sword", "Big", "Bad", "Banana", "Castle",
           "Ogre", "Monster"} |->
       CASE w = "Tabu" -> "tabu" [] w = "King" -> "king" [] w = "The" -> "the"
         [] w = "Hero" -> "hero" [] w = "Sword" -> "sword" [] w = "Big" -> "big"
         [] w = "Bad" -> "bad" [] w = "Banana" -> "banana" [] w = "Castle" -> "castle"
         [] w = "Ogre" -> "ogre" [] w = "Monster" -> "monster"]

LowerWord(w) == IF w \in DOMAIN UpperWords THEN UpperWords[w] ELSE w

Lower(text) == [i \in DOMAIN text |-> LowerWord(text[i])]

\* Proper prefixes among (pattern word, text word) pairs: <<p, w>> when w starts with p.
ProperPrefix == {<<"god", "gods">>}

ProperSuffix == {}

StartsWith(w, p) == w = p \/ <<p, w>> \in ProperPrefix

EndsWith(w, p) == w = p \/ <<p, w>> \in ProperSuffix

\* len(word)
WordLen(w) ==
    LET l == IF w \in DOMAIN UpperWords THEN UpperWords[w] ELSE w
    IN CASE l \in {"of", "as"} -> 2
         [] l \in {"the", "big", "bad", "fox", "god", "for", "man"} -> 3
         [] l \in {"hero", "king", "tabu", "gods", "ogre"} -> 4
         [] l \in {"sword", "power", "fairy", "witch", "giant", "bread", "magic", "ogres", "dream"} -> 5
         [] l \in {"castle", "banana", "origin", "ogress"} -> 6
         [] l \in {"monster"} -> 7
         [] l \in {"monsters"} -> 8
         [] OTHER -> 10

W(s) == {<<x>> : x \in s}

\* A part with \b on both sides, without the trailing \b, without the leading \b.
P(ph) == [ph |-> ph, lb |-> TRUE, tb |-> TRUE, lead |-> <<>>, gap |-> 0]

Pfx(ph) == [ph |-> ph, lb |-> TRUE, tb |-> FALSE, lead |-> <<>>, gap |-> 0]

Sfx(ph) == [ph |-> ph, lb |-> FALSE, tb |-> TRUE, lead |-> <<>>, gap |-> 0]

Sub(ph) == [ph |-> ph, lb |-> FALSE, tb |-> FALSE, lead |-> <<>>, gap |-> 0]

\* "\b(lead .{0,n}(w1|w2|...))\b": the words of lead, at most n characters, then a word
\* that ends in one of the alternatives.
Gap(lead, n, ph) == [ph |-> ph, lb |-> FALSE, tb |-> TRUE, lead |-> lead, gap |-> n]

R(anch, parts, cat) == [anch |-> anch, parts |-> parts, cat |-> cat]

Pat(anch, parts) == [anch |-> anch, parts |-> parts]

WordAt(t, w, isFirst, isLast, part) ==
    IF isLast /\ ~part.tb /\ isFirst /\ ~part.lb THEN StartsWith(t, w) \/ EndsWith(t, w)
    ELSE IF isLast /\ ~part.tb THEN StartsWith(t, w)
    ELSE IF isFirst /\ ~part.lb THEN EndsWith(t, w)
    ELSE t = w

PhraseAt(toks, pos, phr, part) ==
    /\ Len(phr) > 0
    /\ pos >= 1
    /\ pos + Len(phr) - 1 <= Len(toks)
    /\ \A j \in 1..Len(phr) :
          WordAt(toks[pos + j - 1], phr[j], j = 1, j = Len(phr), part)

\* Number of characters of the words toks[a..b], each followed by one blank.
RECURSIVE CharLen(_, _, _)
CharLen(toks, a, b) == IF a > b THEN 0 ELSE WordLen(toks[a]) + 1 + CharLen(toks, a + 1, b)

PlainEnds(toks, pos, part) ==
    IF part.lb /\ part.tb
    THEN {e \in pos..Len(toks) : SubSeq(toks, pos, e) \in part.ph}
    ELSE {pos + Len(phr) - 1 : phr \in {p \in part.ph : PhraseAt(toks, pos, p, part)}}

LeadAt(toks, pos, lead) ==
    /\ pos + Len(lead) - 1 <= Len(toks)
    /\ \A j \in 1..Len(lead) : toks[pos + j - 1] = lead[j]

\* Where a match of the part that starts at word pos can end.
PartEnds(toks, pos, part) ==
    IF part.lead = <<>> THEN PlainEnds(toks, pos, part)
    ELSE IF ~LeadAt(toks, pos, part.lead) THEN {}
    ELSE UNION {PlainEnds(toks, j, part) :
                  j \in {i \in (pos + Len(part.lead))..Len(toks) :
                           CharLen(toks, pos + Len(part.lead), i - 1) <= part.gap}}

RECURSIVE MatchFrom(_, _, _, _)
MatchFrom(toks, parts, k, from) ==
    IF k > Len(parts) THEN TRUE
    ELSE \E pos \in from..Len(toks) :
            \E e \in PartEnds(toks, pos, parts[k]) : MatchFrom(toks, parts, k + 1, e + 1)

\* pattern.search(text)
Search(pat, toks) ==
    IF pat.anch
    THEN \E e \in PartEnds(toks, 1, pat.parts[1]) : MatchFrom(toks, pat.parts, 2, e + 1)
    ELSE MatchFrom(toks, pat.parts, 1, 1)

\* ------------------------------------------------------------------------
\* cluster_tmi.py: the rule table and classify_rule
\* ------------------------------------------------------------------------
RULES == <<
    R(TRUE, <<P(W({"tabu"}))>>, "Condition"),
    R(FALSE, <<P(W({"tabu"})), P(W({"breaking", "broken", "violated", "violating"}))>>, "Condition"),
    R(FALSE, <<P(W({"ban", "bargain", "compact", "curse", "cursed", "curses", "disenchant", "enchanted",
        "enchantment", "forbidden", "geas", "geis", "oath", "prohibition", "spell", "vow"}))>>,
        "Condition"),
    R(TRUE, <<P(W({"origin"}))>>, "Origin"),
    R(TRUE, <<P(W({"why"}))>>, "Origin"),
    R(TRUE, <<P(W({"how"}))>>, "Origin"),
    R(FALSE, <<P({<<"origin", "of">>})>>, "Origin"),
    R(FALSE, <<P({<<"creation", "of">>})>>, "Origin"),
    R(FALSE, <<P({<<"from", "blood">>, <<"from", "body">>, <<"from", "bones">>, <<"from", "breath">>,
        <<"from", "excrement">>, <<"from", "spittle">>, <<"from", "sweat">>, <<"from", "tears">>})>>,
        "Origin"),
    R(TRUE, <<P(W({"punishment"}))>>, "Outcome"),
    R(TRUE, <<P(W({"reward"}))>>, "Outcome"),
    R(FALSE, <<P({<<"punishment", "for">>})>>, "Outcome"),
    R(FALSE, <<P({<<"reward", "for">>})>>, "Outcome"),
    R(FALSE, <<P(W({"atonement", "penance", "retaliation", "retribution", "vengeance"}))>>, "Outcome"),
    R(FALSE, <<P({<<"as", "punishment">>})>>, "Outcome"),
    R(FALSE, <<P({<<"as", "reward">>})>>, "Outcome"),
    R(TRUE, <<P(W({"task"}))>>, "Action"),
    R(TRUE, <<P(W({"test"}))>>, "Action"),
    R(TRUE, <<P(W({"quest"}))>>, "Action"),
    R(TRUE, <<P(W({"deception"}))>>, "Action"),
    R(TRUE, <<P(W({"trick"}))>>, "Action"),
    R(TRUE, <<P(W({"theft"}))>>, "Action"),
    R(TRUE, <<P(W({"pursuit"}))>>, "Action"),
    R(TRUE, <<P(W({"escape"}))>>, "Action"),
    R(TRUE, <<P(W({"rescue"}))>>, "Action"),
    R(TRUE, <<P(W({"capture"}))>>, "Action"),
    R(TRUE, <<P(W({"contest"}))>>, "Action"),
    R(TRUE, <<P(W({"wager"}))>>, "Action"),
    R(TRUE, <<P(W({"sham"}))>>, "Action"),
    R(TRUE, <<P(W({"disguise"}))>>, "Action"),
    R(FALSE, <<P(W({"transformation"}))>>, "Action"),
    R(FALSE, <<P(W({"deceit", "deceiv", "imposture", "ruse", "stratagem", "trickery"}))>>, "Action"),
    R(FALSE, <<P({<<"bride", "task">>, <<"suitor", "task">>, <<"task", "assigned">>, <<"task",
        "imposed">>, <<"task", "set">>, <<"tasks", "assigned">>, <<"tasks", "imposed">>, <<"tasks",
        "set">>})>>, "Action"),
    R(FALSE, <<P(W({"abduction", "betrayal", "kidnapping", "seduction", "treachery"}))>>, "Action"),
    R(FALSE, <<P(W({"chase", "fishing", "flight", "hunting", "pursuit"}))>>, "Action"),
    R(TRUE, <<P(W({"battle", "birth", "death", "deluge", "famine", "fire", "flood", "marriage",
        "plague", "war"}))>>, "Event"),
    R(FALSE, <<P(W({"duel"}) \cup {<<"battle", "of">>, <<"birth", "of">>, <<"death", "of">>,
        <<"marriage", "of">>, <<"war", "between">>})>>, "Event"),
    R(FALSE, <<P(W({"metempsychosis", "rebirth", "reincarnation", "resurrection"}))>>, "Event"),
    R(FALSE, <<P(W({"banquet", "feast", "funeral", "ordeal", "sacrifice", "wedding"}))>>, "Event"),
    R(FALSE, <<P(W({"beheading", "burning", "drowning", "execution", "hanging", "murder",
        "suicide"}))>>, "Event"),
    R(FALSE, <<P(W({"dream", "omen", "oracle", "portent", "prophecy", "sign", "vision"}))>>, "Event"),
    R(FALSE, <<P(W({"adventure", "catastrophe", "disaster", "episode", "incident", "miracle"}))>>,
        "Event"),
    R(FALSE, <<P(W({"arrival", "departure", "journey", "migration", "pilgrimage", "return",
        "voyage"}))>>, "Event"),
    R(FALSE, <<P(W({"combat", "conflict", "dispute", "fight", "quarrel"}))>>, "Event"),
    R(TRUE, <<P(W({"heaven", "hell", "otherworld", "paradise", "purgatory", "underworld"}))>>, "Place"),
    R(FALSE, <<P(W({"heaven", "hell", "otherworld", "paradise", "purgatory", "underworld"}) \cup
        {<<"land", "of">>})>>, "Place"),
    R(FALSE, <<P(W({"castle", "church", "city", "monastery", "palace", "temple", "tower",
        "village"}))>>, "Place"),
    R(FALSE, <<P(W({"bridge", "cave", "forest", "island", "lake", "mountain", "ocean", "river", "sea",
        "spring", "well"}))>>, "Place"),
    R(FALSE, <<P(W({"country", "earth", "firmament", "kingdom", "realm", "sky", "world"}))>>, "Place"),
    R(TRUE, <<P({<<"magic", "arrow">>, <<"magic", "bag">>, <<"magic", "belt">>, <<"magic", "boat">>,
        <<"magic", "book">>, <<"magic", "box">>, <<"magic", "carpet">>, <<"magic", "chain">>, <<"magic",
        "cloak">>, <<"magic", "cup">>, <<"magic", "drum">>, <<"magic", "fiddle">>, <<"magic", "flute">>,
        <<"magic", "harp">>, <<"magic", "hat">>, <<"magic", "horn">>, <<"magic", "key">>, <<"magic",
        "lamp">>, <<"magic", "mill">>, <<"magic", "mirror">>, <<"magic", "net">>, <<"magic", "object">>,
        <<"magic", "pipe">>, <<"magic", "ring">>, <<"magic", "rope">>, <<"magic", "shield">>, <<"magic",
        "ship">>, <<"magic", "shoe">>, <<"magic", "spear">>, <<"magic", "staff">>, <<"magic", "stone">>,
        <<"magic", "sword">>, <<"magic", "wand">>})>>, "Object"),
    R(FALSE, <<P({<<"magic", "drink">>, <<"magic", "elixir">>, <<"magic", "food">>, <<"magic",
        "fruit">>, <<"magic", "herb">>, <<"magic", "medicine">>, <<"magic", "object">>, <<"magic",
        "ointment">>, <<"magic", "plant">>, <<"magic", "potion">>, <<"magic", "salve">>, <<"magic",
        "water">>, <<"magic", "weapon">>})>>, "Object"),
    R(FALSE, <<P(W({"belt", "boot", "boots", "cloak", "cup", "girdle", "glove", "gloves", "hat", "lamp",
        "mirror", "ring", "shoe", "shoes", "staff", "stone", "sword", "wand"})), P(W({"enchanted",
        "extraordinary", "magic", "remarkable", "wonderful"}))>>, "Object"),
    R(FALSE, <<P(W({"enchanted", "extraordinary", "magic", "remarkable", "wonderful"})), P(W({"cloak",
        "cup", "hat", "lamp", "mirror", "ring", "staff", "stone", "sword", "wand"}))>>, "Object"),
    R(FALSE, <<P(W({"amulet", "charm", "hoard", "relic", "talisman", "treasure"}))>>, "Object"),
    R(TRUE, <<P({<<"enchanted", "animal">>, <<"enchanted", "bird">>, <<"enchanted", "cat">>,
        <<"enchanted", "dog">>, <<"enchanted", "fish">>, <<"enchanted", "horse">>, <<"extraordinary",
        "animal">>, <<"extraordinary", "bird">>, <<"extraordinary", "cat">>, <<"extraordinary", "dog">>,
        <<"extraordinary", "fish">>, <<"extraordinary", "horse">>, <<"magic", "animal">>, <<"magic",
        "bird">>, <<"magic", "cat">>, <<"magic", "dog">>, <<"magic", "fish">>, <<"magic", "horse">>,
        <<"wonderful", "animal">>, <<"wonderful", "bird">>, <<"wonderful", "cat">>, <<"wonderful", "dog">>,
        <<"wonderful", "fish">>, <<"wonderful", "horse">>})>>, "Object"),
    R(TRUE, <<P(W({"extraordinary", "magic", "marvelous", "remarkable", "supernatural", "wonderful"})),
        Sfx(W({"appetite", "beauty", "hearing", "intelligence", "memory", "power", "sight", "size", "skill",
        "speed", "strength", "thirst", "voice", "wisdom"}))>>, "Attribute"),
    R(FALSE, <<P(W({"appearance", "beauty", "color", "colour", "deformity", "form", "shape", "size",
        "ugliness"}))>>, "Attribute"),
    R(FALSE, <<P(W({"immortal", "invisibl", "invulnerab", "omnipoten", "omnisci"}))>>, "Attribute"),
    R(FALSE, <<P(W({"beautiful", "clever", "cruel", "foolish", "grateful", "kind", "lucky", "poor",
        "rich", "strong", "stupid", "ugly", "ungrateful", "unlucky", "weak", "wise"})), P(W({"hero", "king",
        "man", "person", "queen", "woman"}))>>, "Attribute"),
    R(FALSE, <<P(W({"hero", "king", "man", "person", "queen", "woman"})), P(W({"beautiful", "clever",
        "foolish", "poor", "rich", "strong", "stupid", "ugly", "weak", "wise"}))>>, "Attribute"),
    R(TRUE, <<P(W({"angel", "deity", "demiurg", "demon", "devil", "ghost", "god", "godd", "goddess",
        "gods", "soul", "spirit"}))>>, "Being"),
    R(TRUE, <<P(W({"chief", "king", "knight", "prince", "princess", "queen", "warrior"}))>>, "Being"),
    R(TRUE, <<P(W({"fool", "hero", "heroine", "magician", "priest", "prophet", "saint", "shaman",
        "sorcerer", "trickster", "witch", "wizard"}))>>, "Being"),
    R(TRUE, <<P(W({"dragon", "dwarf", "elf", "fairy", "giant", "mermaid", "monster", "ogre", "vampire",
        "werewolf"}))>>, "Being"),
    R(TRUE, <<P(W({"animal", "bear", "bird", "crow", "eagle", "fish", "fox", "lion", "raven", "serpent",
        "snake", "wolf"}))>>, "Being"),
    R(FALSE, <<P(W({"dragon", "dragons", "dwarf", "dwarfs", "elve", "elves", "fairies", "fairy",
        "giant", "giants", "mermaid", "mermaids", "ogre", "ogres", "troll", "trolls"}) \cup {<<"culture",
        "hero">>})>>, "Being")
>>


\* "for pattern, category in RULES: if pattern.search(text): return category"
RECURSIVE FirstMatch(_, _, _)
FirstMatch(rules, k, toks) ==
    IF k > Len(rules) THEN None
    ELSE IF Search(rules[k], toks) THEN rules[k].cat
    ELSE FirstMatch(rules, k + 1, toks)

\* classify_rule of cluster_tmi.py, with the last matching rule winning instead of the first.
RECURSIVE LastMatch(_, _, _)
LastMatch(rules, k, toks) ==
    IF k < 1 THEN None
    ELSE IF Search(rules[k], toks) THEN rules[k].cat
    ELSE LastMatch(rules, k - 1, toks)

classify_rule_last(motif_name) == LastMatch(RULES, Len(RULES), Lower(motif_name))

\* cluster_tmi.classify_rule(motif_name)
classify_rule(motif_name) == FirstMatch(RULES, 1, Lower(motif_name))

\* ------------------------------------------------------------------------
\* cluster_tropes.py: the rule table and classify_rule
\* ------------------------------------------------------------------------
TropeVocab == {"the", "big", "bad", "hero", "sword", "castle", "power", "banana"}

TROPES_RULES == <<
    R(FALSE, <<P(W({"antagonist", "hero", "heroine", "mentor", "protagonist", "sidekick", "villain"})
        \cup {<<"love", "interest">>})>>, "Character"),
    R(FALSE, <<P(W({"antihero", "antivillain"}) \cup {<<"anti", "hero">>, <<"anti", "villain">>,
        <<"big", "bad">>, <<"dark", "lord">>, <<"evil", "overlord">>, <<"final", "boss">>})>>, "Character"),
    R(FALSE, <<P(W({"baby", "boy", "child", "elder", "gentleman", "girl", "guy", "kid", "lady", "man",
        "teen", "woman", "youth"})), P(W({"action", "badass", "cool", "cute", "dumb", "mean", "nerdy",
        "nice", "shy", "smart", "tough"}))>>, "Character"),
    R(FALSE, <<P(W({"eccentric", "lone", "mysterious", "reluctant", "token"}) \cup {<<"action",
        "girl">>, <<"chosen", "one">>, <<"gary", "stu">>, <<"mary", "sue">>})>>, "Character"),
    R(FALSE, <<Gap(<<"the">>, 15, W({"hero", "villain", "mentor", "sidekick", "rival", "bully",
        "nerd", "jock", "loner", "fool", "sage"}))>>, "Character"),
    R(FALSE, <<P(W({"archetype", "cast", "ensemble"}) \cup {<<"character", "type">>, <<"stock",
        "character">>})>>, "Character"),
    R(FALSE, <<P(W({"aunt", "brother", "daughter", "father", "grandma", "grandpa", "mother", "parent",
        "sibling", "sister", "son", "uncle"})), P(W({"archetype", "figure", "role", "trope"}))>>,
        "Character"),
    R(FALSE, <<P(W({"alien", "android", "assassin", "cowboy", "cyborg", "detective", "ghost", "knight",
        "monster", "ninja", "pirate", "robot", "samurai", "spy", "vampire", "werewolf", "witch", "wizard",
        "zombie"}))>>, "Character"),
    R(FALSE, <<P(W({"baron", "duke", "emperor", "empress", "king", "lord", "prince", "princess",
        "queen"}))>>, "Character"),
    R(FALSE, <<P(W({"bard", "berserker", "captain", "cleric", "commander", "general", "healer",
        "paladin", "ranger", "rogue", "soldier", "warrior"}))>>, "Character"),
    R(FALSE, <<P(W({"bishounen", "damsel", "dandere", "kuudere", "moe", "tsundere", "yandere"}) \cup
        {<<"femme", "fatale">>, <<"ice", "queen">>})>>, "Character"),
    R(FALSE, <<P(W({"familiar", "mascot", "mount", "pet", "steed"}) \cup {<<"animal", "companion">>})>>,
        "Character"),
    R(FALSE, <<P(W({"plot", "subplot"}) \cup {<<"narrative", "arc">>, <<"story", "arc">>, <<"story",
        "beat">>, <<"story", "line">>})>>, "Plot Device"),
    R(FALSE, <<P({<<"plot", "armor">>, <<"plot", "device">>, <<"plot", "hole">>, <<"plot", "point">>,
        <<"plot", "thread">>, <<"plot", "twist">>})>>, "Plot Device"),
    R(FALSE, <<P(W({"chekhov", "cliffhanger", "foreshadow", "macguffin"}) \cup {<<"deus", "ex",
        "machina">>, <<"red", "herring">>})>>, "Plot Device"),
    R(FALSE, <<P(W({"reveal"}) \cup {<<"dramatic", "irony">>, <<"surprise", "ending">>, <<"the",
        "reveal">>, <<"twist", "ending">>})>>, "Plot Device"),
    R(FALSE, <<P(W({"flashback"}) \cup {<<"cold", "open">>, <<"flash", "forward">>, <<"framing",
        "device">>, <<"in", "medias", "res">>, <<"time", "skip">>})>>, "Plot Device"),
    R(FALSE, <<P(W({"macguffin", "mission", "objective", "prophecy", "quest"}) \cup {<<"chosen",
        "one">>, <<"fetch", "quest">>})>>, "Plot Device"),
    R(FALSE, <<P(W({"climax", "conflict", "denouement", "exposition", "resolution"}) \cup {<<"falling",
        "action">>, <<"rising", "action">>})>>, "Plot Device"),
    R(FALSE, <<P(W({"continuity", "prequel", "reboot", "retcon", "sequel"}) \cup {<<"sequel",
        "hook">>})>>, "Plot Device"),
    R(FALSE, <<P(W({"aesop", "allegory", "lesson", "message", "moral", "parable"}))>>, "Plot Device"),
    R(FALSE, <<P(W({"battle", "brawl", "combat", "duel", "fight", "showdown", "war"}) \cup {<<"final",
        "battle">>})>>, "Event"),
    R(FALSE, <<P(W({"assassination", "death", "dying", "execution", "killed", "murder", "sacrifice",
        "suicide"}))>>, "Event"),
    R(FALSE, <<P(W({"abduction", "chase", "crash", "escape", "explosion", "heist", "kidnap", "rescue",
        "robbery"}))>>, "Event"),
    R(FALSE, <<P(W({"ball", "birth", "celebration", "ceremony", "dance", "feast", "funeral", "party",
        "ritual", "wedding"}))>>, "Event"),
    R(FALSE, <<P(W({"awakening", "betrayal", "fall", "redemption", "revelation", "revenge", "rise",
        "transformation"}))>>, "Event"),
    R(FALSE, <<P(W({"ambush", "assault", "attack", "coup", "invasion", "raid", "rebellion",
        "revolution", "siege", "uprising"}))>>, "Event"),
    R(FALSE, <<P(W({"competition", "contest", "gambit", "game", "race", "tournament", "trial"}))>>,
        "Event"),
    R(FALSE, <<P(W({"levelup", "montage", "powerup", "training", "upgrade"}) \cup {<<"level", "up">>,
        <<"power", "up">>})>>, "Event"),
    R(FALSE, <<P(W({"city", "country", "dimension", "empire", "kingdom", "nation", "planet", "realm",
        "town", "village", "world"}))>>, "Setting"),
    R(FALSE, <<P(W({"castle", "cave", "desert", "dungeon", "forest", "island", "mountain", "ocean",
        "palace", "sea", "space", "tower"}))>>, "Setting"),
    R(FALSE, <<P(W({"academy", "church", "hospital", "library", "museum", "prison", "school", "shrine",
        "temple", "university"}))>>, "Setting"),
    R(FALSE, <<P(W({"apartment", "bar", "base", "hideout", "home", "hotel", "house", "inn", "lair",
        "mansion", "motel", "restaurant", "tavern"}))>>, "Setting"),
    R(FALSE, <<P(W({"abandoned", "floating", "flying", "forbidden", "haunted", "hidden", "secret",
        "underground", "underwater"})), P(W({"area", "building", "lab", "laboratory", "location", "place",
        "room", "warehouse", "zone"}))>>, "Setting"),
    R(FALSE, <<P(W({"apocalypse", "cyberpunk", "dystopia", "postapocalyptic", "steampunk", "utopia",
        "wasteland"}) \cup {<<"post", "apocalyptic">>})>>, "Setting"),
    R(FALSE, <<P(W({"abyss", "afterlife", "heaven", "hell", "limbo", "purgatory", "underworld",
        "void"}))>>, "Setting"),
    R(FALSE, <<P(W({"armor", "armour", "arrow", "axe", "blade", "bow", "gun", "hammer", "pistol",
        "rifle", "shield", "spear", "sword", "weapon"}))>>, "Object"),
    R(FALSE, <<P(W({"amulet", "artifact", "book", "crystal", "gem", "key", "lock", "map", "orb",
        "relic", "ring", "scroll", "talisman", "tome"}))>>, "Object"),
    R(FALSE, <<P(W({"antidote", "drug", "elixir", "medicine", "pill", "poison", "potion", "serum"}))>>,
        "Object"),
    R(FALSE, <<P(W({"bicycle", "car", "mech", "mecha", "motorcycle", "plane", "robot", "ship",
        "spaceship", "tank", "train", "vehicle"}))>>, "Object"),
    R(FALSE, <<P(W({"computer", "device", "gadget", "machine", "phone", "tech", "technology",
        "tool"}))>>, "Object"),
    R(FALSE, <<P(W({"beer", "bread", "cake", "coffee", "drink", "feast", "food", "fruit", "meal", "tea",
        "wine"}))>>, "Object"),
    R(FALSE, <<P(W({"boots", "cape", "cloak", "clothing", "costume", "dress", "gloves", "hat", "mask",
        "outfit", "suit", "uniform"}))>>, "Object"),
    R(FALSE, <<P(W({"coin", "currency", "fortune", "gold", "jewel", "money", "treasure", "wealth"}))>>,
        "Object"),
    R(FALSE, <<P(W({"catchphrase", "innuendo", "oneliner", "pun", "quip", "witticism"}) \cup
        {<<"double", "entendre">>, <<"one", "liner">>})>>, "Dialogue"),
    R(FALSE, <<P(W({"confession", "dialogue", "lecture", "monologue", "rant", "sermon", "soliloquy",
        "speech"}))>>, "Dialogue"),
    R(FALSE, <<P(W({"alias", "called", "name", "naming", "nickname", "pseudonym", "title"}) \cup
        {<<"code", "name">>, <<"known", "as">>})>>, "Dialogue"),
    R(FALSE, <<P(W({"accent", "bilingual", "foreign", "language", "subtitle", "translation"}))>>,
        "Dialogue"),
    R(FALSE, <<P(W({"bleep", "censored", "euphemism", "profanity", "slang", "swearing"}) \cup
        {<<"curse", "word">>})>>, "Dialogue"),
    R(FALSE, <<P(W({"aside", "caption", "narration", "narrator", "voiceover"}) \cup {<<"breaking",
        "the", "fourth", "wall">>, <<"fourth", "wall">>, <<"voice", "over">>})>>, "Dialogue"),
    R(FALSE, <<P(W({"expression", "idiom", "motto", "phrase", "proverb", "saying", "slogan", "tagline"})
        \cup {<<"title", "drop">>})>>, "Dialogue"),
    R(FALSE, <<P(W({"comedy", "drama", "farce", "horror", "parody", "romance", "satire", "slapstick",
        "tragedy"}))>>, "Genre/Tone"),
    R(FALSE, <<P(W({"crime", "detective", "fantasy", "mystery", "noir", "scifi", "thriller", "western"})
        \cup {<<"sci", "fi">>, <<"science", "fiction">>})>>, "Genre/Tone"),
    R(FALSE, <<P(W({"anime", "cartoon", "comic", "documentary", "manga", "musical", "sitcom"}) \cup
        {<<"soap", "opera">>})>>, "Genre/Tone"),
    R(FALSE, <<P(W({"absurd", "campy", "cheesy", "corny", "dark", "gritty", "lighthearted", "narm",
        "surreal", "whimsical"}))>>, "Genre/Tone"),
    R(FALSE, <<P(W({"avert", "deconstruct", "invert", "lampshade", "parody", "playstraight",
        "reconstruct", "subver"}) \cup {<<"play", "straight">>})>>, "Genre/Tone"),
    R(FALSE, <<P(W({"archetype", "cliche", "convention", "formula", "stereotype", "trope"}))>>,
        "Genre/Tone"),
    R(FALSE, <<P(W({"crapsack", "grimdark", "noblebright", "worldbuilding"}) \cup {<<"sugar", "bowl">>,
        <<"world", "building">>})>>, "Genre/Tone"),
    R(FALSE, <<P(W({"angle", "camera", "closeup", "pan", "shot", "wideshot", "zoom"}) \cup {<<"close",
        "up">>, <<"pov", "shot">>, <<"tracking", "shot">>, <<"wide", "shot">>})>>, "Visual/Style"),
    R(FALSE, <<P(W({"animated", "animation", "cgi"}) \cup {<<"practical", "effect">>, <<"special",
        "effect">>, <<"visual", "effect">>})>>, "Visual/Style"),
    R(FALSE, <<P(W({"brightness", "color", "colour", "contrast", "lighting", "palette", "shadow",
        "silhouette"}))>>, "Visual/Style"),
    R(FALSE, <<P(W({"aesthetic", "design", "emblem", "icon", "logo", "motif", "symbol"}) \cup {<<"art",
        "style">>})>>, "Visual/Style"),
    R(FALSE, <<P(W({"leitmotif", "music", "score", "silence", "song", "soundtrack"}) \cup {<<"sound",
        "effect">>, <<"theme", "song">>})>>, "Visual/Style"),
    R(FALSE, <<P(W({"costume", "eyepatch", "hair", "hairstyle", "makeup", "scar", "tattoo", "wardrobe"})
        \cup {<<"eye", "patch">>})>>, "Visual/Style"),
    R(FALSE, <<P(W({"cut", "fade", "montage", "transition"}) \cup {<<"freeze", "frame">>, <<"slow",
        "motion">>, <<"smash", "cut">>, <<"split", "screen">>})>>, "Visual/Style"),
    R(FALSE, <<P(W({"affair", "crush", "dating", "divorce", "flirt", "heartbreak", "jealousy", "love",
        "marriage", "romance"}))>>, "Relationship"),
    R(FALSE, <<P(W({"alliance", "duo", "friendship", "group", "partner", "rivalry", "team", "trio"})
        \cup {<<"band", "of">>})>>, "Relationship"),
    R(FALSE, <<P(W({"adopted", "child", "estranged", "family", "orphan", "parent", "reunion", "sibling",
        "twin"}))>>, "Relationship"),
    R(FALSE, <<P(W({"couple", "harem", "otp", "pair", "ship", "shipping"}) \cup {<<"love", "interest">>,
        <<"love", "triangle">>, <<"reverse", "harem">>})>>, "Relationship"),
    R(FALSE, <<P(W({"apprentice", "master", "mentor", "protege", "sensei", "student", "teacher"}))>>,
        "Relationship"),
    R(FALSE, <<P(W({"bond", "devotion", "guardian", "loyalty", "protect", "trust"}) \cup {<<"sacrifice",
        "for">>})>>, "Relationship"),
    R(FALSE, <<P(W({"lampshade", "meta", "trope"}) \cup {<<"fourth", "wall">>, <<"genre", "sav">>,
        <<"leaning", "on">>, <<"medium", "aware">>})>>, "Narrative Device"),
    R(FALSE, <<P(W({"nested", "recursive"}) \cup {<<"framing", "device">>, <<"story", "within">>,
        <<"unreliable", "narrator">>})>>, "Narrative Device"),
    R(FALSE, <<P(W({"filler", "recap"}) \cup {<<"beach", "episode">>, <<"bottle", "episode">>,
        <<"breather", "episode">>, <<"clip", "show">>})>>, "Narrative Device"),
    R(FALSE, <<P(W({"canon", "crossover", "fanon", "retcon", "spinoff"}) \cup {<<"shared", "universe">>,
        <<"spin", "off">>, <<"word", "of", "god">>})>>, "Narrative Device"),
    R(FALSE, <<P(W({"adaptation", "alternate", "reboot", "remake"}) \cup {<<"based", "on">>,
        <<"inspired", "by">>})>>, "Narrative Device"),
    R(FALSE, <<P(W({"ageappropriate", "censorship", "rating"}) \cup {<<"age", "appropriate">>,
        <<"content", "warning">>, <<"trigger", "warning">>})>>, "Narrative Device"),
    R(FALSE, <<P(W({"ability", "curse", "enchant", "gift", "magic", "power", "skill", "spell",
        "superpower", "talent"}))>>, "Power/Ability"),
    R(FALSE, <<P(W({"immortal", "invisibility", "invulnerability", "regenerat", "telekinesis",
        "telepathy", "teleport"}))>>, "Power/Ability"),
    R(FALSE, <<P(W({"dark", "earth", "element", "energy", "fire", "force", "ice", "light", "lightning",
        "shadow", "water", "wind"})), P(W({"attack", "ball", "barrier", "beam", "blast", "bolt", "magic",
        "power", "shield", "wave"}))>>, "Power/Ability"),
    R(FALSE, <<P(W({"flight", "flying", "morph", "shapeshif", "transform"}) \cup {<<"super", "speed">>,
        <<"super", "strength">>})>>, "Power/Ability"),
    R(FALSE, <<P(W({"conjur", "enchant", "healing", "illusion", "necromancy", "resurrection",
        "summoning"}) \cup {<<"mind", "control">>})>>, "Power/Ability")
>>

\* cluster_tropes.classify_rule(name_split, desc_short): text = name_split + " " + desc_short
tropes_classify_rule(name_split, desc_short) ==
    FirstMatch(TROPES_RULES, 1, name_split \o desc_short)

\* ------------------------------------------------------------------------
\* rf_classify.py: main-category rules (Being priority)
\* ------------------------------------------------------------------------
\* rf_classify.py: the compiled patterns and the patterns searched in place, each
\* under its name in the script
being_patterns == [
    \* line 71
    _BEING_SUBJECT |-> Pat(TRUE, <<P(W({"angel", "angels", "animal", "animals", "ant", "ape",
        "archangel", "badger", "baker", "bandit", "banshee", "basilisk", "bat", "bear", "beaver", "bee",
        "beetle", "beggar", "bird", "birds", "bishop", "blacksmith", "boar", "bogey", "bogeyman", "boy",
        "bride", "brother", "brownie", "buffalo", "bull", "butterfly", "camel", "cannibal", "carpenter",
        "cat", "changeling", "chief", "child", "children", "chimera", "clergyman", "cobbler", "cock", "cow",
        "coyote", "crab", "crane", "creator", "creators", "criminal", "crocodile", "crow", "cuckoo",
        "cyclop", "daughter", "deer", "deities", "deity", "demigod", "demiurg", "demon", "demons", "devil",
        "devils", "divine", "dog", "dolphin", "donkey", "dove", "dragon", "dragons", "duck", "dwarf",
        "dwarfs", "dwarves", "eagle", "eel", "elephant", "elf", "elves", "enchanter", "enchantress",
        "fairies", "fairy", "farmer", "father", "fish", "fisherman", "fishes", "flea", "fly", "fool", "fox",
        "frog", "ghost", "ghosts", "ghoul", "giant", "giants", "girl", "gnome", "goat", "god", "godd",
        "goddess", "gods", "goose", "gorgon", "griffin", "groom", "hare", "hawk", "hedgehog", "hen",
        "hermit", "hero", "heroine", "heron", "horse", "human", "hunter", "husband", "hydra", "hyena",
        "imam", "imp", "incubus", "innkeeper", "insect", "insects", "jackal", "kelpie", "king", "knight",
        "lad", "lady", "lass", "leopard", "leprechaun", "lion", "lizard", "lord", "lover", "lucifer",
        "magician", "magpie", "maiden", "man", "master", "men", "merchant", "mermaid", "merman", "mice",
        "miller", "minotaur", "monk", "monkey", "monster", "monsters", "mortal", "mother", "mouse", "mule",
        "murderer", "nobleman", "nun", "ogre", "ogress", "orphan", "otter", "outlaw", "owl", "ox", "parrot",
        "pastor", "peacock", "peasant", "people", "person", "phantom", "phoenix", "pig", "pirate", "pixie",
        "pope", "priest", "prince", "princess", "prophet", "queen", "rabbi", "rabbit", "ram", "rat",
        "raven", "revenant", "robber", "saint", "salmon", "satan", "scorpion", "selkie", "serpent",
        "servant", "shaman", "shark", "sheep", "shepherd", "siren", "sister", "slave", "snail", "snake",
        "soldier", "son", "sorcerer", "sorceress", "soul", "souls", "sparrow", "specter", "sphinx",
        "spider", "spirit", "spirits", "squirrel", "stepbrother", "stepfather", "stepmother", "stepsister",
        "stork", "succubus", "suitor", "swan", "tailor", "thief", "tiger", "toad", "tortoise", "trickster",
        "troll", "trolls", "turtle", "unicorn", "vampire", "vulture", "warrior", "weasel", "werewolf",
        "whale", "widow", "wife", "witch", "witches", "wizard", "wolf", "wolves", "woman", "women", "worm",
        "wraith", "youth", "zombie"}) \cup {<<"culture", "hero">>, <<"dead", "man">>, <<"dead", "men">>,
        <<"dead", "people">>, <<"dead", "person">>, <<"dead", "woman">>, <<"the", "angel">>, <<"the",
        "angels">>, <<"the", "animal">>, <<"the", "animals">>, <<"the", "ant">>, <<"the", "ape">>, <<"the",
        "archangel">>, <<"the", "badger">>, <<"the", "baker">>, <<"the", "bandit">>, <<"the", "banshee">>,
        <<"the", "basilisk">>, <<"the", "bat">>, <<"the", "bear">>, <<"the", "beaver">>, <<"the", "bee">>,
        <<"the", "beetle">>, <<"the", "beggar">>, <<"the", "bird">>, <<"the", "birds">>, <<"the",
        "bishop">>, <<"the", "blacksmith">>, <<"the", "boar">>, <<"the", "bogey">>, <<"the", "bogeyman">>,
        <<"the", "boy">>, <<"the", "bride">>, <<"the", "brother">>, <<"the", "brownie">>, <<"the",
        "buffalo">>, <<"the", "bull">>, <<"the", "butterfly">>, <<"the", "camel">>, <<"the", "cannibal">>,
        <<"the", "carpenter">>, <<"the", "cat">>, <<"the", "changeling">>, <<"the", "chief">>, <<"the",
        "child">>, <<"the", "children">>, <<"the", "chimera">>, <<"the", "clergyman">>, <<"the",
        "cobbler">>, <<"the", "cock">>, <<"the", "cow">>, <<"the", "coyote">>, <<"the", "crab">>, <<"the",
        "crane">>, <<"the", "creator">>, <<"the", "creators">>, <<"the", "criminal">>, <<"the",
        "crocodile">>, <<"the", "crow">>, <<"the", "cuckoo">>, <<"the", "culture", "hero">>, <<"the",
        "cyclop">>, <<"the", "daughter">>, <<"the", "dead", "man">>, <<"the", "dead", "men">>, <<"the",
        "dead", "people">>, <<"the", "dead", "person">>, <<"the", "dead", "woman">>, <<"the", "deer">>,
        <<"the", "deities">>, <<"the", "deity">>, <<"the", "demigod">>, <<"the", "demiurg">>, <<"the",
        "demon">>, <<"the", "demons">>, <<"the", "devil">>, <<"the", "devils">>, <<"the", "divine">>,
        <<"the", "dog">>, <<"the", "dolphin">>, <<"the", "donkey">>, <<"the", "dove">>, <<"the", "dragon">>,
        <<"the", "dragons">>, <<"the", "duck">>, <<"the", "dwarf">>, <<"the", "dwarfs">>, <<"the",
        "dwarves">>, <<"the", "eagle">>, <<"the", "eel">>, <<"the", "elephant">>, <<"the", "elf">>, <<"the",
        "elves">>, <<"the", "enchanter">>, <<"the", "enchantress">>, <<"the", "fairies">>, <<"the",
        "fairy">>, <<"the", "farmer">>, <<"the", "father">>, <<"the", "fish">>, <<"the", "fisherman">>,
        <<"the", "fishes">>, <<"the", "flea">>, <<"the", "fly">>, <<"the", "fool">>, <<"the", "fox">>,
        <<"the", "frog">>, <<"the", "ghost">>, <<"the", "ghosts">>, <<"the", "ghoul">>, <<"the", "giant">>,
        <<"the", "giants">>, <<"the", "girl">>, <<"the", "gnome">>, <<"the", "goat">>, <<"the", "god">>,
        <<"the", "godd">>, <<"the", "goddess">>, <<"the", "gods">>, <<"the", "goose">>, <<"the", "gorgon">>,
        <<"the", "griffin">>, <<"the", "groom">>, <<"the", "hare">>, <<"the", "hawk">>, <<"the",
        "hedgehog">>, <<"the", "hen">>, <<"the", "hermit">>, <<"the", "hero">>, <<"the", "heroine">>,
        <<"the", "heron">>, <<"the", "horse">>, <<"the", "human">>, <<"the", "hunter">>, <<"the",
        "husband">>, <<"the", "hydra">>, <<"the", "hyena">>, <<"the", "imam">>, <<"the", "imp">>, <<"the",
        "incubus">>, <<"the", "innkeeper">>, <<"the", "insect">>, <<"the", "insects">>, <<"the", "jackal">>,
        <<"the", "kelpie">>, <<"the", "king">>, <<"the", "knight">>, <<"the", "lad">>, <<"the", "lady">>,
        <<"the", "lass">>, <<"the", "leopard">>, <<"the", "leprechaun">>, <<"the", "lion">>, <<"the",
        "lizard">>, <<"the", "lord">>, <<"the", "lover">>, <<"the", "lucifer">>, <<"the", "magician">>,
        <<"the", "magpie">>, <<"the", "maiden">>, <<"the", "man">>, <<"the", "master">>, <<"the", "men">>,
        <<"the", "merchant">>, <<"the", "mermaid">>, <<"the", "merman">>, <<"the", "mice">>, <<"the",
        "miller">>, <<"the", "minotaur">>, <<"the", "monk">>, <<"the", "monkey">>, <<"the", "monster">>,
        <<"the", "monsters">>, <<"the", "mortal">>, <<"the", "mother">>, <<"the", "mouse">>, <<"the",
        "mule">>, <<"the", "murderer">>, <<"the", "nobleman">>, <<"the", "nun">>, <<"the", "ogre">>,
        <<"the", "ogress">>, <<"the", "orphan">>, <<"the", "otter">>, <<"the", "outlaw">>, <<"the", "owl">>,
        <<"the", "ox">>, <<"the", "parrot">>, <<"the", "pastor">>, <<"the", "peacock">>, <<"the",
        "peasant">>, <<"the", "people">>, <<"the", "person">>, <<"the", "phantom">>, <<"the", "phoenix">>,
        <<"the", "pig">>, <<"the", "pirate">>, <<"the", "pixie">>, <<"the", "pope">>, <<"the", "priest">>,
        <<"the", "prince">>, <<"the", "princess">>, <<"the", "prophet">>, <<"the", "queen">>, <<"the",
        "rabbi">>, <<"the", "rabbit">>, <<"the", "ram">>, <<"the", "rat">>, <<"the", "raven">>, <<"the",
        "revenant">>, <<"the", "robber">>, <<"the", "saint">>, <<"the", "salmon">>, <<"the", "satan">>,
        <<"the", "scorpion">>, <<"the", "selkie">>, <<"the", "serpent">>, <<"the", "servant">>, <<"the",
        "shaman">>, <<"the", "shark">>, <<"the", "sheep">>, <<"the", "shepherd">>, <<"the", "siren">>,
        <<"the", "sister">>, <<"the", "slave">>, <<"the", "snail">>, <<"the", "snake">>, <<"the",
        "soldier">>, <<"the", "son">>, <<"the", "sorcerer">>, <<"the", "sorceress">>, <<"the", "soul">>,
        <<"the", "souls">>, <<"the", "sparrow">>, <<"the", "specter">>, <<"the", "sphinx">>, <<"the",
        "spider">>, <<"the", "spirit">>, <<"the", "spirits">>, <<"the", "squirrel">>, <<"the",
        "stepbrother">>, <<"the", "stepfather">>, <<"the", "stepmother">>, <<"the", "stepsister">>, <<"the",
        "stork">>, <<"the", "succubus">>, <<"the", "suitor">>, <<"the", "swan">>, <<"the", "tailor">>,
        <<"the", "thief">>, <<"the", "tiger">>, <<"the", "toad">>, <<"the", "tortoise">>, <<"the",
        "trickster">>, <<"the", "troll">>, <<"the", "trolls">>, <<"the", "turtle">>, <<"the", "unicorn">>,
        <<"the", "vampire">>, <<"the", "vulture">>, <<"the", "warrior">>, <<"the", "weasel">>, <<"the",
        "werewolf">>, <<"the", "whale">>, <<"the", "widow">>, <<"the", "wife">>, <<"the", "wild", "man">>,
        <<"the", "wild", "woman">>, <<"the", "witch">>, <<"the", "witches">>, <<"the", "wizard">>, <<"the",
        "wolf">>, <<"the", "wolves">>, <<"the", "woman">>, <<"the", "women">>, <<"the", "worm">>, <<"the",
        "wraith">>, <<"the", "youth">>, <<"the", "zombie">>, <<"wild", "man">>, <<"wild", "woman">>})>>),
    \* line 187
    _BEING_ANYWHERE |-> Pat(FALSE, <<P(W({"dragon", "dragons", "dwarf", "dwarfs", "elve", "elves",
        "fairies", "fairy", "giant", "giants", "mermaid", "mermaids", "ogre", "ogres", "troll", "trolls"})
        \cup {<<"culture", "hero">>})>>),
    \* line 306
    _deity_subject |-> Pat(TRUE, <<P(W({"creator", "creators", "deities", "deity", "demigod", "demiurg",
        "divine", "divinit", "god", "godd", "goddess", "gods", "pantheon"}) \cup {<<"culture", "hero">>,
        <<"supreme", "being">>, <<"the", "creator">>, <<"the", "creators">>, <<"the", "culture", "hero">>,
        <<"the", "deities">>, <<"the", "deity">>, <<"the", "demigod">>, <<"the", "demiurg">>, <<"the",
        "divine">>, <<"the", "divinit">>, <<"the", "god">>, <<"the", "godd">>, <<"the", "goddess">>,
        <<"the", "gods">>, <<"the", "pantheon">>, <<"the", "supreme", "being">>})>>),
    \* line 309
    _deity_anywhere |-> Pat(FALSE, <<P(W({"deities", "deity", "demigod", "demiurg", "divine", "god's",
        "goddess's", "olymp", "pantheon"}) \cup {<<"culture", "hero">>, <<"god", "as">>, <<"god", "of">>,
        <<"goddess", "of">>, <<"gods", "and">>, <<"heavenly", "being">>, <<"heavenly", "beings">>, <<"of",
        "god">>, <<"of", "the", "gods">>})>>),
    \* line 313
    _deity_names |-> Pat(FALSE, <<P(W({"allah", "amaterasu", "anansi", "aphrodite", "apollo", "ares",
        "artemis", "athena", "baal", "balder", "brahma", "brigid", "buddha", "cernunnos", "coyolxauhqui",
        "dagda", "danu", "demeter", "diana", "dionysus", "durga", "enki", "enlil", "eshu", "freya",
        "freyja", "frigg", "ganesh", "hades", "hanuman", "heimdall", "hephaestus", "hera", "hermes",
        "inanna", "indra", "ishtar", "isis", "izanagi", "izanami", "jehovah", "juno", "jupiter", "kali",
        "krishna", "lakshmi", "loki", "lugh", "manannan", "manannán", "marduk", "mars", "maui", "mercury",
        "minerva", "morrigan", "neptune", "njord", "odin", "osiris", "parvati", "pele", "persephone",
        "pluto", "poseidon", "quetzalcoatl", "ra", "rama", "saraswati", "saturn", "shiva", "siva",
        "susanoo", "tezcatlipoca", "thor", "tiamat", "tyr", "venus", "vishnu", "yahweh", "ymir",
        "zeus"}))>>),
    \* line 323
    _parent_of_gods |-> Pat(FALSE, <<P(W({"ancestor", "birth", "born", "father", "mother", "parent"})),
        P(W({"deities", "god", "goddess", "gods"}))>>),
    \* line 337
    deity_start |-> Pat(TRUE, <<Pfx(W({"creator", "deity", "god", "goddess"}) \cup {<<"the", "creator">>,
        <<"the", "deity">>, <<"the", "god">>, <<"the", "goddess">>, <<"the", "the", "god">>, <<"the", "the",
        "goddess">>})>>),
    \* line 340
    as_god |-> Pat(FALSE, <<P(W({"-god"}) \cup {<<"as", "god">>})>>),
    \* line 340
    as_goddess |-> Pat(FALSE, <<P(W({"-goddess"}) \cup {<<"as", "goddess">>})>>),
    \* line 345
    god_word |-> Pat(FALSE, <<P(W({"god", "godd", "gods"}))>>),
    \* line 345
    goddess_word |-> Pat(FALSE, <<P(W({"goddess"}))>>),
    \* line 345
    deity_word |-> Pat(FALSE, <<P(W({"deity"}))>>),
    \* line 347
    human_acts_on_god |-> Pat(TRUE, <<P(W({"boy", "child", "daughter", "girl", "husband", "king", "man",
        "men", "people", "person", "prince", "princess", "queen", "son", "wife", "woman", "women"})),
        Sfx(W({"deceive", "deceives", "defeat", "defeats", "kill", "kills", "marries", "meet", "meets",
        "serve", "serves", "slay", "slays", "trick", "tricks", "visit", "visits"})), Pfx(W({"god"}))>>),
    \* line 353
    nature_of_god |-> Pat(FALSE, <<P({<<"attributes", "of", "creator">>, <<"attributes", "of",
        "deities">>, <<"attributes", "of", "deity">>, <<"attributes", "of", "god">>, <<"attributes", "of",
        "gods">>, <<"attributes", "of", "the", "creator">>, <<"attributes", "of", "the", "deities">>,
        <<"attributes", "of", "the", "deity">>, <<"attributes", "of", "the", "god">>, <<"attributes", "of",
        "the", "gods">>, <<"characteristics", "of", "creator">>, <<"characteristics", "of", "deities">>,
        <<"characteristics", "of", "deity">>, <<"characteristics", "of", "god">>, <<"characteristics", "of",
        "gods">>, <<"characteristics", "of", "the", "creator">>, <<"characteristics", "of", "the",
        "deities">>, <<"characteristics", "of", "the", "deity">>, <<"characteristics", "of", "the", "god">>,
        <<"characteristics", "of", "the", "gods">>, <<"nature", "of", "creator">>, <<"nature", "of",
        "deities">>, <<"nature", "of", "deity">>, <<"nature", "of", "god">>, <<"nature", "of", "gods">>,
        <<"nature", "of", "the", "creator">>, <<"nature", "of", "the", "deities">>, <<"nature", "of", "the",
        "deity">>, <<"nature", "of", "the", "god">>, <<"nature", "of", "the", "gods">>, <<"power", "of",
        "creator">>, <<"power", "of", "deities">>, <<"power", "of", "deity">>, <<"power", "of", "god">>,
        <<"power", "of", "gods">>, <<"power", "of", "the", "creator">>, <<"power", "of", "the", "deities">>,
        <<"power", "of", "the", "deity">>, <<"power", "of", "the", "god">>, <<"power", "of", "the",
        "gods">>, <<"powers", "of", "creator">>, <<"powers", "of", "deities">>, <<"powers", "of", "deity">>,
        <<"powers", "of", "god">>, <<"powers", "of", "gods">>, <<"powers", "of", "the", "creator">>,
        <<"powers", "of", "the", "deities">>, <<"powers", "of", "the", "deity">>, <<"powers", "of", "the",
        "god">>, <<"powers", "of", "the", "gods">>, <<"qualities", "of", "creator">>, <<"qualities", "of",
        "deities">>, <<"qualities", "of", "deity">>, <<"qualities", "of", "god">>, <<"qualities", "of",
        "gods">>, <<"qualities", "of", "the", "creator">>, <<"qualities", "of", "the", "deities">>,
        <<"qualities", "of", "the", "deity">>, <<"qualities", "of", "the", "god">>, <<"qualities", "of",
        "the", "gods">>})>>),
    \* line 356
    of_the_gods |-> Pat(FALSE, <<P({<<"of", "gods">>, <<"of", "the", "gods">>})>>),
    \* line 365
    _witch_subject |-> Pat(TRUE, <<P(W({"conjurer", "enchanter", "enchantress", "hag", "magician",
        "necromancer", "shaman", "sorcerer", "sorceress", "warlock", "witch", "witches", "wizard"}) \cup
        {<<"cunning", "man">>, <<"cunning", "woman">>, <<"medicine", "man">>, <<"medicine", "woman">>,
        <<"the", "conjurer">>, <<"the", "cunning", "man">>, <<"the", "cunning", "woman">>, <<"the",
        "enchanter">>, <<"the", "enchantress">>, <<"the", "hag">>, <<"the", "magician">>, <<"the",
        "medicine", "man">>, <<"the", "medicine", "woman">>, <<"the", "necromancer">>, <<"the", "shaman">>,
        <<"the", "sorcerer">>, <<"the", "sorceress">>, <<"the", "warlock">>, <<"the", "witch">>, <<"the",
        "witches">>, <<"the", "wizard">>})>>),
    \* line 369
    _witch_anywhere |-> Pat(FALSE, <<P(W({"conjurer", "enchanter", "enchantress", "magician",
        "necromancer", "shaman", "sorcerer", "sorceress", "warlock", "witch", "witch's", "witches",
        "wizard"}))>>),
    \* line 380
    by_witch |-> Pat(FALSE, <<P({<<"by", "enchant">>, <<"by", "magician">>, <<"by", "sorcerer">>, <<"by",
        "witch">>, <<"by", "wizard">>})>>),
    \* line 385
    _spirit_subject |-> Pat(TRUE, <<P(W({"angel", "angels", "archangel", "banshee", "bogey", "bogeyman",
        "brownie", "centaur", "changeling", "cherub", "demon", "demons", "devil", "devils", "djinn",
        "dwarf", "dwarfs", "dwarves", "elf", "elves", "fairies", "fairy", "fiend", "genie", "ghost",
        "ghosts", "ghoul", "gnome", "imp", "incubus", "jinn", "kelpie", "knocker", "kobold", "leprechaun",
        "lucifer", "merfolk", "mermaid", "merman", "muse", "naiad", "nixie", "nymph", "phantom", "pixie",
        "poltergeist", "revenant", "satan", "satyr", "selkie", "seraph", "siren", "soul", "souls",
        "specter", "spirit", "spirits", "sprite", "succubus", "sylph", "undead", "valkyrie", "vampire",
        "werewolf", "will-o", "wraith", "zombie"}) \cup {<<"dead", "man">>, <<"dead", "men">>, <<"dead",
        "people">>, <<"dead", "person">>, <<"dead", "woman">>, <<"the", "angel">>, <<"the", "angels">>,
        <<"the", "archangel">>, <<"the", "banshee">>, <<"the", "bogey">>, <<"the", "bogeyman">>, <<"the",
        "brownie">>, <<"the", "centaur">>, <<"the", "changeling">>, <<"the", "cherub">>, <<"the", "dead">>,
        <<"the", "dead", "man">>, <<"the", "dead", "men">>, <<"the", "dead", "people">>, <<"the", "dead",
        "person">>, <<"the", "dead", "woman">>, <<"the", "demon">>, <<"the", "demons">>, <<"the",
        "departed">>, <<"the", "devil">>, <<"the", "devils">>, <<"the", "djinn">>, <<"the", "dwarf">>,
        <<"the", "dwarfs">>, <<"the", "dwarves">>, <<"the", "elf">>, <<"the", "elves">>, <<"the",
        "fairies">>, <<"the", "fairy">>, <<"the", "fiend">>, <<"the", "genie">>, <<"the", "ghost">>,
        <<"the", "ghosts">>, <<"the", "ghoul">>, <<"the", "gnome">>, <<"the", "imp">>, <<"the", "incubus">>,
        <<"the", "jinn">>, <<"the", "kelpie">>, <<"the", "knocker">>, <<"the", "kobold">>, <<"the",
        "leprechaun">>, <<"the", "lucifer">>, <<"the", "merfolk">>, <<"the", "mermaid">>, <<"the",
        "merman">>, <<"the", "muse">>, <<"the", "naiad">>, <<"the", "nixie">>, <<"the", "nymph">>, <<"the",
        "phantom">>, <<"the", "pixie">>, <<"the", "poltergeist">>, <<"the", "revenant">>, <<"the",
        "satan">>, <<"the", "satyr">>, <<"the", "selkie">>, <<"the", "seraph">>, <<"the", "siren">>,
        <<"the", "soul">>, <<"the", "souls">>, <<"the", "specter">>, <<"the", "spirit">>, <<"the",
        "spirits">>, <<"the", "sprite">>, <<"the", "succubus">>, <<"the", "sylph">>, <<"the", "the",
        "dead">>, <<"the", "the", "departed">>, <<"the", "undead">>, <<"the", "valkyrie">>, <<"the",
        "vampire">>, <<"the", "werewolf">>, <<"the", "will-o">>, <<"the", "wraith">>, <<"the",
        "zombie">>})>>),
    \* line 395
    _spirit_anywhere |-> Pat(FALSE, <<P(W({"angel", "angels", "archangel", "banshee", "bogey",
        "bogeyman", "brownie", "changeling", "cherub", "demon", "demons", "devil", "devils", "dwarf",
        "dwarfs", "dwarves", "elf", "elves", "fairies", "fairy", "fairy'", "fairys", "fiend", "ghost",
        "ghost'", "ghosts", "ghosts'", "ghostss", "ghoul", "gnome", "imp", "imps", "kelpie", "kobold",
        "leprechaun", "lucifer", "mermaid", "merman", "nixie", "phantom", "pixie", "poltergeist",
        "revenant", "satan", "satan'", "satans", "selkie", "seraph", "siren", "soul", "soul'", "souls",
        "souls'", "soulss", "specter", "spirit", "spirit'", "spirits", "spirits'", "spiritss", "undead",
        "vampire", "werewolf", "wraith", "zombie"}))>>),
    \* line 403
    _dead_subject |-> Pat(TRUE, <<P(W({"dead", "ghost", "resuscitat"}) \cup {<<"return", "from",
        "dead">>, <<"return", "from", "the", "dead">>, <<"return", "of", "the", "dead">>, <<"the", "dead">>,
        <<"the", "ghost">>, <<"the", "resuscitat">>, <<"the", "return", "from", "dead">>, <<"the", "return",
        "from", "the", "dead">>, <<"the", "return", "of", "the", "dead">>, <<"the", "the", "dead">>})>>),
    \* line 416
    spirit_word |-> Pat(FALSE, <<P(W({"angel", "angels", "demon", "demons", "devil", "devils", "dwarf",
        "dwarfs", "elf", "elfs", "fairy", "fairys", "ghost", "ghosts", "mermaid", "mermaids", "spirit",
        "spirits", "vampire", "vampires", "werewolf", "werewolfs"}))>>),
    \* line 419
    spirit_start |-> Pat(TRUE, <<Pfx(W({"angel", "demon", "devil", "dwarf", "elf", "fairy", "ghost",
        "mermaid", "spirit", "vampire", "werewolf"}) \cup {<<"the", "angel">>, <<"the", "demon">>, <<"the",
        "devil">>, <<"the", "dwarf">>, <<"the", "elf">>, <<"the", "fairy">>, <<"the", "ghost">>, <<"the",
        "mermaid">>, <<"the", "spirit">>, <<"the", "vampire">>, <<"the", "werewolf">>})>>),
    \* line 421
    of_the_spirit |-> Pat(FALSE, <<P({<<"of", "angel">>, <<"of", "demon">>, <<"of", "demons">>, <<"of",
        "devil">>, <<"of", "devils">>, <<"of", "dwarf">>, <<"of", "dwarfs">>, <<"of", "elves">>, <<"of",
        "fairies">>, <<"of", "fairy">>, <<"of", "ghost">>, <<"of", "spirit">>, <<"of", "spirits">>, <<"of",
        "the", "angel">>, <<"of", "the", "demon">>, <<"of", "the", "demons">>, <<"of", "the", "devil">>,
        <<"of", "the", "devils">>, <<"of", "the", "dwarf">>, <<"of", "the", "dwarfs">>, <<"of", "the",
        "elves">>, <<"of", "the", "fairies">>, <<"of", "the", "fairy">>, <<"of", "the", "ghost">>, <<"of",
        "the", "spirit">>, <<"of", "the", "spirits">>, <<"of", "the", "vampire">>, <<"of", "the",
        "vampires">>, <<"of", "vampire">>, <<"of", "vampires">>})>>),
    \* line 426
    _monster_subject |-> Pat(TRUE, <<P(W({"basilisk", "behemoth", "cannibal", "cerberus", "chimera",
        "cyclop", "dragon", "dragons", "giant", "giants", "gorgon", "griffin", "hydra", "kraken",
        "leviathan", "maneater", "manticore", "minotaur", "monster", "monsters", "ogress", "phoenix",
        "seamonster", "sphinx", "thunderbird", "troll", "trolls", "unicorn", "watermonster"}) \cup {<<"man",
        "eater">>, <<"sea", "monster">>, <<"the", "basilisk">>, <<"the", "behemoth">>, <<"the",
        "cannibal">>, <<"the", "cerberus">>, <<"the", "chimera">>, <<"the", "cyclop">>, <<"the", "dragon">>,
        <<"the", "dragons">>, <<"the", "giant">>, <<"the", "giants">>, <<"the", "gorgon">>, <<"the",
        "griffin">>, <<"the", "hydra">>, <<"the", "kraken">>, <<"the", "leviathan">>, <<"the", "man",
        "eater">>, <<"the", "maneater">>, <<"the", "manticore">>, <<"the", "minotaur">>, <<"the",
        "monster">>, <<"the", "monsters">>, <<"the", "ogress">>, <<"the", "phoenix">>, <<"the", "sea",
        "monster">>, <<"the", "seamonster">>, <<"the", "sphinx">>, <<"the", "thunderbird">>, <<"the",
        "troll">>, <<"the", "trolls">>, <<"the", "unicorn">>, <<"the", "water", "monster">>, <<"the",
        "watermonster">>, <<"the", "wild", "man">>, <<"the", "wild", "woman">>, <<"water", "monster">>,
        <<"wild", "man">>, <<"wild", "woman">>})>>),
    \* line 432
    _monster_anywhere |-> Pat(FALSE, <<P(W({"basilisk", "cannibal", "cannibals", "cerberus", "chimera",
        "cyclop", "dragon", "dragons", "giant", "giant'", "giants", "giants'", "giantss", "gorgon",
        "griffin", "hydra", "kraken", "leviathan", "maneat", "manticore", "minotaur", "monster", "monsters",
        "ogress", "troll", "trolls"}) \cup {<<"man", "eat">>, <<"wild", "man">>, <<"wild", "woman">>})>>),
    \* line 437
    _serpent_monster |-> Pat(FALSE, <<P({<<"great", "serpent">>, <<"monstrous", "serpent">>, <<"sea",
        "serpent">>, <<"serpent", "monster">>, <<"world", "serpent">>})>>),
    \* line 450
    of_the_monster |-> Pat(FALSE, <<P({<<"of", "dragon">>, <<"of", "dragons">>, <<"of", "giant">>,
        <<"of", "giants">>, <<"of", "monster">>, <<"of", "monsters">>, <<"of", "ogress">>, <<"of",
        "ogresss">>, <<"of", "the", "dragon">>, <<"of", "the", "dragons">>, <<"of", "the", "giant">>,
        <<"of", "the", "giants">>, <<"of", "the", "monster">>, <<"of", "the", "monsters">>, <<"of", "the",
        "ogress">>, <<"of", "the", "ogresss">>, <<"of", "the", "troll">>, <<"of", "the", "trolls">>, <<"of",
        "troll">>, <<"of", "trolls">>})>>),
    \* line 455
    _animal_names |-> Pat(FALSE, <<P(W({"adder", "alligator", "ant", "ants", "ape", "asp", "badger",
        "bat", "bats", "bear", "bears", "beaver", "bee", "bees", "beetle", "boar", "buffalo", "bull",
        "butterfly", "camel", "cat", "caterpillar", "cats", "clam", "cobra", "cock", "cow", "cows",
        "coyote", "crab", "crane", "cricket", "crocodile", "crow", "cuckoo", "deer", "dog", "dogs",
        "dolphin", "donkey", "dove", "duck", "eagle", "eel", "elephant", "ferret", "fish", "fishes",
        "flamingo", "flea", "flies", "fly", "fox", "frog", "geese", "goat", "goose", "grasshopper", "hare",
        "hawk", "hedgehog", "hen", "heron", "hornet", "horse", "horses", "hyena", "jackal", "jellyfish",
        "lark", "leopard", "lion", "lizard", "lobster", "locust", "louse", "maggot", "magpie", "mice",
        "mink", "monkey", "mosquito", "moth", "mouse", "mule", "mussel", "nightingale", "octopus",
        "ostrich", "otter", "owl", "ox", "oxen", "oyster", "panther", "parrot", "partridge", "peacock",
        "pelican", "pheasant", "pig", "pigeon", "pigs", "porcupine", "python", "quail", "rabbit", "raccoon",
        "ram", "rat", "rats", "raven", "robin", "salmon", "scorpion", "seal", "seals", "serpent", "shark",
        "sheep", "skunk", "slug", "snail", "snake", "sparrow", "spider", "squid", "squirrel", "starfish",
        "stork", "swallow", "swan", "tick", "tiger", "toad", "tortoise", "trout", "turtle", "viper",
        "vulture", "wasp", "weasel", "whale", "wolf", "wolves", "woodpecker", "worm"}))>>),
    \* line 471
    _animal_subject |-> Pat(TRUE, <<P(W({"animal", "animals", "ant", "ape", "badger", "bat", "bear",
        "beaver", "bee", "beetle", "bird", "birds", "boar", "buffalo", "bull", "butterfly", "camel", "cat",
        "clam", "cock", "cow", "coyote", "crab", "crane", "crocodile", "crow", "cuckoo", "deer", "dog",
        "dolphin", "donkey", "dove", "duck", "eagle", "eel", "elephant", "fish", "fishes", "flea", "flies",
        "fly", "fox", "frog", "goat", "goose", "hare", "hawk", "hedgehog", "hen", "heron", "horse", "hyena",
        "insect", "insects", "jackal", "leopard", "lion", "lizard", "lobster", "louse", "magpie", "monkey",
        "mosquito", "mouse", "mule", "octopus", "otter", "owl", "ox", "oyster", "parrot", "peacock", "pig",
        "rabbit", "ram", "rat", "raven", "salmon", "scorpion", "serpent", "shark", "sheep", "snail",
        "snake", "sparrow", "spider", "squirrel", "stork", "swan", "tiger", "toad", "tortoise", "turtle",
        "vulture", "weasel", "whale", "wolf", "worm"}) \cup {<<"the", "animal">>, <<"the", "animals">>,
        <<"the", "ant">>, <<"the", "ape">>, <<"the", "badger">>, <<"the", "bat">>, <<"the", "bear">>,
        <<"the", "beaver">>, <<"the", "bee">>, <<"the", "beetle">>, <<"the", "bird">>, <<"the", "birds">>,
        <<"the", "boar">>, <<"the", "buffalo">>, <<"the", "bull">>, <<"the", "butterfly">>, <<"the",
        "camel">>, <<"the", "cat">>, <<"the", "clam">>, <<"the", "cock">>, <<"the", "cow">>, <<"the",
        "coyote">>, <<"the", "crab">>, <<"the", "crane">>, <<"the", "crocodile">>, <<"the", "crow">>,
        <<"the", "cuckoo">>, <<"the", "deer">>, <<"the", "dog">>, <<"the", "dolphin">>, <<"the", "donkey">>,
        <<"the", "dove">>, <<"the", "duck">>, <<"the", "eagle">>, <<"the", "eel">>, <<"the", "elephant">>,
        <<"the", "fish">>, <<"the", "fishes">>, <<"the", "flea">>, <<"the", "flies">>, <<"the", "fly">>,
        <<"the", "fox">>, <<"the", "frog">>, <<"the", "goat">>, <<"the", "goose">>, <<"the", "hare">>,
        <<"the", "hawk">>, <<"the", "hedgehog">>, <<"the", "hen">>, <<"the", "heron">>, <<"the", "horse">>,
        <<"the", "hyena">>, <<"the", "insect">>, <<"the", "insects">>, <<"the", "jackal">>, <<"the",
        "leopard">>, <<"the", "lion">>, <<"the", "lizard">>, <<"the", "lobster">>, <<"the", "louse">>,
        <<"the", "magpie">>, <<"the", "monkey">>, <<"the", "mosquito">>, <<"the", "mouse">>, <<"the",
        "mule">>, <<"the", "octopus">>, <<"the", "otter">>, <<"the", "owl">>, <<"the", "ox">>, <<"the",
        "oyster">>, <<"the", "parrot">>, <<"the", "peacock">>, <<"the", "pig">>, <<"the", "rabbit">>,
        <<"the", "ram">>, <<"the", "rat">>, <<"the", "raven">>, <<"the", "salmon">>, <<"the", "scorpion">>,
        <<"the", "serpent">>, <<"the", "shark">>, <<"the", "sheep">>, <<"the", "snail">>, <<"the",
        "snake">>, <<"the", "sparrow">>, <<"the", "spider">>, <<"the", "squirrel">>, <<"the", "stork">>,
        <<"the", "swan">>, <<"the", "tiger">>, <<"the", "toad">>, <<"the", "tortoise">>, <<"the",
        "turtle">>, <<"the", "vulture">>, <<"the", "weasel">>, <<"the", "whale">>, <<"the", "wolf">>,
        <<"the", "worm">>})>>),
    \* line 523
    why_how |-> Pat(TRUE, <<P(W({"how", "why"}) \cup {<<"creation", "of">>, <<"origin", "of">>})>>),
    \* line 526
    animal_as |-> Pat(FALSE, <<P({<<"animal", "as">>, <<"animal", "bride">>, <<"animal", "grateful">>,
        <<"animal", "groom">>, <<"animal", "helper">>, <<"animal", "husband">>, <<"animal", "king">>,
        <<"animal", "language">>, <<"animal", "wife">>})>>),
    \* line 528
    helpful_animal |-> Pat(FALSE, <<P({<<"faithful", "animal">>, <<"faithful", "bear">>, <<"faithful",
        "bird">>, <<"faithful", "cat">>, <<"faithful", "dog">>, <<"faithful", "eagle">>, <<"faithful",
        "fish">>, <<"faithful", "fox">>, <<"faithful", "horse">>, <<"faithful", "lion">>, <<"faithful",
        "raven">>, <<"faithful", "serpent">>, <<"faithful", "snake">>, <<"faithful", "wolf">>, <<"grateful",
        "animal">>, <<"grateful", "bear">>, <<"grateful", "bird">>, <<"grateful", "cat">>, <<"grateful",
        "dog">>, <<"grateful", "eagle">>, <<"grateful", "fish">>, <<"grateful", "fox">>, <<"grateful",
        "horse">>, <<"grateful", "lion">>, <<"grateful", "raven">>, <<"grateful", "serpent">>, <<"grateful",
        "snake">>, <<"grateful", "wolf">>, <<"helpful", "animal">>, <<"helpful", "bear">>, <<"helpful",
        "bird">>, <<"helpful", "cat">>, <<"helpful", "dog">>, <<"helpful", "eagle">>, <<"helpful", "fish">>,
        <<"helpful", "fox">>, <<"helpful", "horse">>, <<"helpful", "lion">>, <<"helpful", "raven">>,
        <<"helpful", "serpent">>, <<"helpful", "snake">>, <<"helpful", "wolf">>, <<"speaking", "animal">>,
        <<"speaking", "bear">>, <<"speaking", "bird">>, <<"speaking", "cat">>, <<"speaking", "dog">>,
        <<"speaking", "eagle">>, <<"speaking", "fish">>, <<"speaking", "fox">>, <<"speaking", "horse">>,
        <<"speaking", "lion">>, <<"speaking", "raven">>, <<"speaking", "serpent">>, <<"speaking", "snake">>,
        <<"speaking", "wolf">>, <<"talking", "animal">>, <<"talking", "bear">>, <<"talking", "bird">>,
        <<"talking", "cat">>, <<"talking", "dog">>, <<"talking", "eagle">>, <<"talking", "fish">>,
        <<"talking", "fox">>, <<"talking", "horse">>, <<"talking", "lion">>, <<"talking", "raven">>,
        <<"talking", "serpent">>, <<"talking", "snake">>, <<"talking", "wolf">>, <<"treacherous",
        "animal">>, <<"treacherous", "bear">>, <<"treacherous", "bird">>, <<"treacherous", "cat">>,
        <<"treacherous", "dog">>, <<"treacherous", "eagle">>, <<"treacherous", "fish">>, <<"treacherous",
        "fox">>, <<"treacherous", "horse">>, <<"treacherous", "lion">>, <<"treacherous", "raven">>,
        <<"treacherous", "serpent">>, <<"treacherous", "snake">>, <<"treacherous", "wolf">>})>>),
    \* line 534
    _human_subject |-> Pat(TRUE, <<P(W({"baker", "bandit", "beggar", "bishop", "blacksmith", "boy",
        "bride", "brother", "carpenter", "child", "children", "clergyman", "clever", "cobbler", "criminal",
        "daughter", "eldest", "farmer", "father", "fisherman", "fool", "girl", "groom", "hermit", "hero",
        "heroine", "human", "hunter", "husband", "imam", "innkeeper", "king", "knight", "lad", "lady",
        "lass", "lazy", "lord", "lover", "maiden", "man", "master", "men", "merchant", "miller", "monk",
        "mortal", "mother", "murderer", "nobleman", "nun", "orphan", "outlaw", "paramour", "pastor",
        "peasant", "people", "person", "pirate", "poor", "pope", "priest", "prince", "princess", "prophet",
        "queen", "rabbi", "rich", "robber", "saint", "servant", "shepherd", "sister", "slave", "soldier",
        "son", "stepbrother", "stepdaughter", "stepfather", "stepmother", "stepsister", "stepson", "stupid",
        "suitor", "tailor", "thief", "trickster", "warrior", "widow", "wife", "woman", "women", "youngest",
        "youth"}) \cup {<<"the", "baker">>, <<"the", "bandit">>, <<"the", "beggar">>, <<"the", "bishop">>,
        <<"the", "blacksmith">>, <<"the", "boy">>, <<"the", "bride">>, <<"the", "brother">>, <<"the",
        "carpenter">>, <<"the", "child">>, <<"the", "children">>, <<"the", "clergyman">>, <<"the",
        "clever">>, <<"the", "cobbler">>, <<"the", "criminal">>, <<"the", "daughter">>, <<"the", "eldest">>,
        <<"the", "farmer">>, <<"the", "father">>, <<"the", "fisherman">>, <<"the", "fool">>, <<"the",
        "girl">>, <<"the", "groom">>, <<"the", "hermit">>, <<"the", "hero">>, <<"the", "heroine">>, <<"the",
        "human">>, <<"the", "hunter">>, <<"the", "husband">>, <<"the", "imam">>, <<"the", "innkeeper">>,
        <<"the", "king">>, <<"the", "knight">>, <<"the", "lad">>, <<"the", "lady">>, <<"the", "lass">>,
        <<"the", "lazy">>, <<"the", "lord">>, <<"the", "lover">>, <<"the", "maiden">>, <<"the", "man">>,
        <<"the", "master">>, <<"the", "men">>, <<"the", "merchant">>, <<"the", "miller">>, <<"the",
        "monk">>, <<"the", "mortal">>, <<"the", "mother">>, <<"the", "murderer">>, <<"the", "nobleman">>,
        <<"the", "nun">>, <<"the", "orphan">>, <<"the", "outlaw">>, <<"the", "paramour">>, <<"the",
        "pastor">>, <<"the", "peasant">>, <<"the", "people">>, <<"the", "person">>, <<"the", "pirate">>,
        <<"the", "poor">>, <<"the", "pope">>, <<"the", "priest">>, <<"the", "prince">>, <<"the",
        "princess">>, <<"the", "prophet">>, <<"the", "queen">>, <<"the", "rabbi">>, <<"the", "rich">>,
        <<"the", "robber">>, <<"the", "saint">>, <<"the", "servant">>, <<"the", "shepherd">>, <<"the",
        "sister">>, <<"the", "slave">>, <<"the", "soldier">>, <<"the", "son">>, <<"the", "stepbrother">>,
        <<"the", "stepdaughter">>, <<"the", "stepfather">>, <<"the", "stepmother">>, <<"the",
        "stepsister">>, <<"the", "stepson">>, <<"the", "stupid">>, <<"the", "suitor">>, <<"the", "tailor">>,
        <<"the", "thief">>, <<"the", "trickster">>, <<"the", "warrior">>, <<"the", "widow">>, <<"the",
        "wife">>, <<"the", "woman">>, <<"the", "women">>, <<"the", "youngest">>, <<"the", "youth">>})>>),
    \* line 654
    fix_deity |-> Pat(TRUE, <<P(W({"creator", "creators", "deity", "demigod", "demiurg", "god", "godd",
        "goddess", "gods"}) \cup {<<"culture", "hero">>, <<"the", "creator">>, <<"the", "creators">>,
        <<"the", "culture", "hero">>, <<"the", "deity">>, <<"the", "demigod">>, <<"the", "demiurg">>,
        <<"the", "god">>, <<"the", "godd">>, <<"the", "goddess">>, <<"the", "gods">>, <<"the", "the",
        "creator">>, <<"the", "the", "god">>, <<"the", "the", "goddess">>})>>),
    \* line 660
    fix_spirit |-> Pat(TRUE, <<P(W({"angel", "banshee", "demon", "devil", "dwarf", "elf", "elves",
        "fairies", "fairy", "ghost", "mermaid", "phantom", "satan", "soul", "spirit", "vampire",
        "werewolf"}) \cup {<<"the", "angel">>, <<"the", "banshee">>, <<"the", "demon">>, <<"the", "devil">>,
        <<"the", "dwarf">>, <<"the", "elf">>, <<"the", "elves">>, <<"the", "fairies">>, <<"the", "fairy">>,
        <<"the", "ghost">>, <<"the", "mermaid">>, <<"the", "phantom">>, <<"the", "satan">>, <<"the",
        "soul">>, <<"the", "spirit">>, <<"the", "vampire">>, <<"the", "werewolf">>})>>),
    \* line 666
    fix_monster |-> Pat(TRUE, <<P(W({"cannibal", "cyclop", "dragon", "giant", "monster", "ogress",
        "troll"}) \cup {<<"the", "cannibal">>, <<"the", "cyclop">>, <<"the", "dragon">>, <<"the", "giant">>,
        <<"the", "monster">>, <<"the", "ogress">>, <<"the", "troll">>})>>),
    \* line 671
    fix_witch |-> Pat(TRUE, <<P(W({"enchanter", "enchantress", "magician", "sorcerer", "sorceress",
        "witch", "witches", "wizard"}) \cup {<<"the", "enchanter">>, <<"the", "enchantress">>, <<"the",
        "magician">>, <<"the", "sorcerer">>, <<"the", "sorceress">>, <<"the", "witch">>, <<"the",
        "witches">>, <<"the", "wizard">>})>>)
]

NON_BEING_RULES == <<
    R(TRUE, <<P(W({"tabu"}))>>, "Condition"),
    R(FALSE, <<P(W({"tabu"})), P(W({"breaking", "broken", "violated", "violating"}))>>, "Condition"),
    R(FALSE, <<P(W({"ban", "bargain", "compact", "curse", "cursed", "curses", "disenchant", "enchanted",
        "enchantment", "forbidden", "geas", "geis", "oath", "prohibition", "spell", "vow"}))>>,
        "Condition"),
    R(TRUE, <<P(W({"origin"}))>>, "Origin"),
    R(TRUE, <<P(W({"why"}))>>, "Origin"),
    R(TRUE, <<P(W({"how"}))>>, "Origin"),
    R(FALSE, <<P({<<"origin", "of">>})>>, "Origin"),
    R(FALSE, <<P({<<"creation", "of">>})>>, "Origin"),
    R(FALSE, <<P({<<"from", "blood">>, <<"from", "body">>, <<"from", "bones">>, <<"from", "breath">>,
        <<"from", "excrement">>, <<"from", "spittle">>, <<"from", "sweat">>, <<"from", "tears">>})>>,
        "Origin"),
    R(TRUE, <<P(W({"punishment"}))>>, "Outcome"),
    R(TRUE, <<P(W({"reward"}))>>, "Outcome"),
    R(FALSE, <<P({<<"punishment", "for">>})>>, "Outcome"),
    R(FALSE, <<P({<<"reward", "for">>})>>, "Outcome"),
    R(FALSE, <<P(W({"atonement", "penance", "retaliation", "retribution", "vengeance"}))>>, "Outcome"),
    R(FALSE, <<P({<<"as", "punishment">>})>>, "Outcome"),
    R(FALSE, <<P({<<"as", "reward">>})>>, "Outcome"),
    R(TRUE, <<P(W({"task"}))>>, "Action"),
    R(TRUE, <<P(W({"test"}))>>, "Action"),
    R(TRUE, <<P(W({"quest"}))>>, "Action"),
    R(TRUE, <<P(W({"deception"}))>>, "Action"),
    R(TRUE, <<P(W({"trick"}))>>, "Action"),
    R(TRUE, <<P(W({"theft"}))>>, "Action"),
    R(TRUE, <<P(W({"pursuit"}))>>, "Action"),
    R(TRUE, <<P(W({"escape"}))>>, "Action"),
    R(TRUE, <<P(W({"rescue"}))>>, "Action"),
    R(TRUE, <<P(W({"capture"}))>>, "Action"),
    R(TRUE, <<P(W({"contest"}))>>, "Action"),
    R(TRUE, <<P(W({"wager"}))>>, "Action"),
    R(TRUE, <<P(W({"sham"}))>>, "Action"),
    R(TRUE, <<P(W({"disguise"}))>>, "Action"),
    R(FALSE, <<P(W({"transformation"}))>>, "Action"),
    R(FALSE, <<P(W({"deceit", "deceiv", "imposture", "ruse", "stratagem", "trickery"}))>>, "Action"),
    R(FALSE, <<P({<<"bride", "task">>, <<"suitor", "task">>, <<"task", "assigned">>, <<"task",
        "imposed">>, <<"task", "set">>, <<"tasks", "assigned">>, <<"tasks", "imposed">>, <<"tasks",
        "set">>})>>, "Action"),
    R(FALSE, <<P(W({"abduction", "betrayal", "kidnapping", "seduction", "treachery"}))>>, "Action"),
    R(FALSE, <<P(W({"chase", "fishing", "flight", "hunting", "pursuit"}))>>, "Action"),
    R(TRUE, <<P(W({"battle", "birth", "death", "deluge", "famine", "fire", "flood", "marriage",
        "plague", "war"}))>>, "Event"),
    R(FALSE, <<P(W({"duel"}) \cup {<<"battle", "of">>, <<"birth", "of">>, <<"death", "of">>,
        <<"marriage", "of">>, <<"war", "between">>})>>, "Event"),
    R(FALSE, <<P(W({"metempsychosis", "rebirth", "reincarnation", "resurrection"}))>>, "Event"),
    R(FALSE, <<P(W({"banquet", "feast", "funeral", "ordeal", "sacrifice", "wedding"}))>>, "Event"),
    R(FALSE, <<P(W({"beheading", "burning", "drowning", "execution", "hanging", "murder",
        "suicide"}))>>, "Event"),
    R(FALSE, <<P(W({"dream", "omen", "oracle", "portent", "prophecy", "sign", "vision"}))>>, "Event"),
    R(FALSE, <<P(W({"adventure", "catastrophe", "disaster", "episode", "incident", "miracle"}))>>,
        "Event"),
    R(FALSE, <<P(W({"arrival", "departure", "journey", "migration", "pilgrimage", "return",
        "voyage"}))>>, "Event"),
    R(FALSE, <<P(W({"combat", "conflict", "dispute", "fight", "quarrel"}))>>, "Event"),
    R(TRUE, <<P(W({"heaven", "hell", "otherworld", "paradise", "purgatory", "underworld"}))>>, "Place"),
    R(FALSE, <<P(W({"heaven", "hell", "otherworld", "paradise", "purgatory", "underworld"}) \cup
        {<<"land", "of">>})>>, "Place"),
    R(FALSE, <<P(W({"castle", "church", "city", "monastery", "palace", "temple", "tower",
        "village"}))>>, "Place"),
    R(FALSE, <<P(W({"bridge", "cave", "forest", "island", "lake", "mountain", "ocean", "river", "sea",
        "spring", "well"}))>>, "Place"),
    R(FALSE, <<P(W({"country", "earth", "firmament", "kingdom", "realm", "sky", "world"}))>>, "Place"),
    R(TRUE, <<P({<<"magic", "arrow">>, <<"magic", "bag">>, <<"magic", "belt">>, <<"magic", "boat">>,
        <<"magic", "book">>, <<"magic", "box">>, <<"magic", "carpet">>, <<"magic", "chain">>, <<"magic",
        "cloak">>, <<"magic", "cup">>, <<"magic", "drum">>, <<"magic", "fiddle">>, <<"magic", "flute">>,
        <<"magic", "harp">>, <<"magic", "hat">>, <<"magic", "horn">>, <<"magic", "key">>, <<"magic",
        "lamp">>, <<"magic", "mill">>, <<"magic", "mirror">>, <<"magic", "net">>, <<"magic", "object">>,
        <<"magic", "pipe">>, <<"magic", "ring">>, <<"magic", "rope">>, <<"magic", "shield">>, <<"magic",
        "ship">>, <<"magic", "shoe">>, <<"magic", "spear">>, <<"magic", "staff">>, <<"magic", "stone">>,
        <<"magic", "sword">>, <<"magic", "wand">>})>>, "Object"),
    R(FALSE, <<P({<<"magic", "drink">>, <<"magic", "elixir">>, <<"magic", "food">>, <<"magic",
        "fruit">>, <<"magic", "herb">>, <<"magic", "medicine">>, <<"magic", "object">>, <<"magic",
        "ointment">>, <<"magic", "plant">>, <<"magic", "potion">>, <<"magic", "salve">>, <<"magic",
        "water">>, <<"magic", "weapon">>})>>, "Object"),
    R(FALSE, <<P(W({"belt", "boot", "boots", "cloak", "cup", "girdle", "glove", "gloves", "hat", "lamp",
        "mirror", "ring", "shoe", "shoes", "staff", "stone", "sword", "wand"})), P(W({"enchanted",
        "extraordinary", "magic", "remarkable", "wonderful"}))>>, "Object"),
    R(FALSE, <<P(W({"enchanted", "extraordinary", "magic", "remarkable", "wonderful"})), P(W({"cloak",
        "cup", "hat", "lamp", "mirror", "ring", "staff", "stone", "sword", "wand"}))>>, "Object"),
    R(FALSE, <<P(W({"amulet", "charm", "hoard", "relic", "talisman", "treasure"}))>>, "Object"),
    R(TRUE, <<P(W({"extraordinary", "magic", "marvelous", "remarkable", "supernatural", "wonderful"})),
        Sfx(W({"appetite", "beauty", "hearing", "intelligence", "memory", "power", "sight", "size", "skill",
        "speed", "strength", "thirst", "voice", "wisdom"}))>>, "Attribute"),
    R(FALSE, <<P(W({"appearance", "beauty", "color", "colour", "deformity", "form", "shape", "size",
        "ugliness"}))>>, "Attribute"),
    R(FALSE, <<P(W({"immortal", "invisibl", "invulnerab", "omnipoten", "omnisci"}))>>, "Attribute"),
    R(FALSE, <<P(W({"beautiful", "clever", "cruel", "foolish", "grateful", "kind", "lucky", "poor",
        "rich", "strong", "stupid", "ugly", "ungrateful", "unlucky", "weak", "wise"})), P(W({"hero", "king",
        "man", "person", "queen", "woman"}))>>, "Attribute"),
    R(FALSE, <<P(W({"hero", "king", "man", "person", "queen", "woman"})), P(W({"beautiful", "clever",
        "foolish", "poor", "rich", "strong", "stupid", "ugly", "weak", "wise"}))>>, "Attribute")
>>

\* classify_main with the non-Being rules consulted before the subject-position detector
classify_main_rules_first(motif_name) ==
    LET lower == Lower(motif_name)
        cat == FirstMatch(NON_BEING_RULES, 1, lower)
    IN IF cat # None THEN cat
       ELSE IF Search(being_patterns._BEING_SUBJECT, lower) \/ Search(being_patterns._BEING_ANYWHERE, lower) THEN "Being"
       ELSE None

\* classify_main: the subject-position Being detector, then the non-Being rules in
\* table order, then the anywhere-Being pattern.
classify_main(motif_name) ==
    LET lower == Lower(motif_name)
        cat == FirstMatch(NON_BEING_RULES, 1, lower)
    IN IF Search(being_patterns._BEING_SUBJECT, lower) THEN "Being"
       ELSE IF cat # None THEN cat
       ELSE IF Search(being_patterns._BEING_ANYWHERE, lower) THEN "Being"
       ELSE None

\* ------------------------------------------------------------------------
\* rf_classify.py: Being subcategory rules
\* ------------------------------------------------------------------------
ToSet(s) == {s[i] : i \in DOMAIN s}

\* " ".join(name.lower().split()[:n])
_first_words(name, n) == SubSeq(Lower(name), 1, IF Len(name) < n THEN Len(name) ELSE n)

\* lower.startswith("the gods")
the_gods_start == Pat(TRUE, <<Pfx({<<"the", "gods">>})>>)

\* "of the gods" in lower (every string of the list at lines 358-360 contains it)
of_the_gods_text == Pat(FALSE, <<Sub({<<"of", "the", "gods">>})>>)

_human_subject_words ==
    {"man", "woman", "person", "wife", "husband", "king", "queen", "prince", "princess",
     "boy", "girl", "child", "children", "son", "daughter", "hero", "heroine", "saint",
     "fool", "thief", "servant", "master", "lord", "lady", "priest", "monk", "nun",
     "maiden", "youth", "old", "farmer", "hunter", "fisherman", "shepherd", "soldier",
     "warrior", "merchant", "tailor", "cobbler", "miller", "baker", "smith", "carpenter",
     "beggar", "orphan", "widow", "bride", "groom", "lover", "suitor", "paramour"}

_deity_indicator_words ==
    {"god", "gods", "goddess", "deity", "deities", "creator", "creators", "divine",
     "demiurge", "demigod", "culture"}

is_deity(name, chapter) ==
    LET lower == Lower(name)
        first == _first_words(name, 4)
        first6 == _first_words(name, 6)
    IN \/ Search(being_patterns._deity_subject, first)
       \/ Search(being_patterns._deity_names, lower)
       \/ Search(being_patterns._parent_of_gods, lower)
       \/ Search(the_gods_start, lower)
       \/ (Len(lower) >= 2 /\ lower[1] = "gods")
       \/ Search(being_patterns.deity_start, lower)
       \/ Search(being_patterns.as_god, lower)
       \/ Search(being_patterns.as_goddess, lower)
       \/ /\ \/ Search(being_patterns.god_word, first6)
             \/ Search(being_patterns.goddess_word, first6)
             \/ Search(being_patterns.deity_word, first6)
          /\ ~Search(being_patterns.human_acts_on_god, lower)
       \/ (chapter = "Myths" /\ Search(being_patterns._deity_anywhere, lower))
       \/ Search(being_patterns.nature_of_god, lower)
       \/ (Search(being_patterns.of_the_gods, lower) /\ Search(of_the_gods_text, lower))

is_witch(name, chapter) ==
    LET lower == Lower(name)
        first == _first_words(name, 4)
    IN \/ Search(being_patterns._witch_subject, first)
       \/ (chapter = "Monsters" /\ Search(being_patterns._witch_anywhere, lower))
       \/ Search(being_patterns.by_witch, lower)

is_spirit(name, chapter) ==
    LET lower == Lower(name)
        first == _first_words(name, 4)
    IN \/ Search(being_patterns._spirit_subject, first)
       \/ (chapter = "Death" /\ Search(being_patterns._spirit_anywhere, lower))
       \/ (chapter = "Death" /\ Search(being_patterns._dead_subject, lower))
       \/ Search(being_patterns._spirit_anywhere, first)
       \/ /\ Search(being_patterns.spirit_word, lower)
          /\ \/ chapter \in {"Marvels", "Death", "Monsters", "Religion"}
             \/ Search(being_patterns.spirit_start, lower)
             \/ Search(being_patterns.of_the_spirit, lower)

is_monster(name, chapter) ==
    LET lower == Lower(name)
        first == _first_words(name, 4)
    IN \/ Search(being_patterns._monster_subject, first)
       \/ (chapter = "Monsters" /\ Search(being_patterns._monster_anywhere, lower))
       \/ Search(being_patterns._monster_anywhere, first)
       \/ Search(being_patterns._serpent_monster, lower)
       \/ Search(being_patterns.of_the_monster, lower)

is_animal(name, chapter) ==
    LET lower == Lower(name)
        first == _first_words(name, 3)
        first_words_set == ToSet(_first_words(name, 4))
        first_three == ToSet(_first_words(name, 3))
    IN IF first_words_set \cap _deity_indicator_words # {} THEN FALSE
       ELSE IF Search(being_patterns._animal_subject, first) THEN TRUE
       ELSE IF chapter = "Animals"
            THEN /\ first_words_set \cap _human_subject_words = {}
                 /\ first_words_set \cap _deity_indicator_words = {}
       ELSE IF first_three \cap _human_subject_words # {} THEN FALSE
       ELSE \/ (Search(being_patterns.why_how, lower) /\ Search(being_patterns._animal_names, lower))
            \/ Search(being_patterns.animal_as, lower)
            \/ Search(being_patterns.helpful_animal, lower)

HumanChapters ==
    {"Wisdom and Folly", "Deceptions", "Sex", "Society", "Humor", "Cruelty",
     "Captives and Fugitives"}

is_human(name, chapter) ==
    \/ Search(being_patterns._human_subject, _first_words(name, 3))
    \/ chapter \in HumanChapters

\* classify_being: the tests in the order the function applies them.
classify_being(name, chapter) ==
    IF is_witch(name, chapter) THEN "Witch/Sorcerer"
    ELSE IF is_deity(name, chapter) THEN "Deity"
    ELSE IF is_spirit(name, chapter) THEN "Spirit"
    ELSE IF is_monster(name, chapter) THEN "Monster"
    ELSE IF is_animal(name, chapter) THEN "Animal"
    ELSE IF is_human(name, chapter) THEN "Human"
    ELSE None

\* One pass of the post-classification correction loop over a Being record whose
\* subcategory is old.
post_correction(name, chapter, old) ==
    LET lower == Lower(name)
        first_words == ToSet(SubSeq(lower, 1, IF Len(lower) < 3 THEN Len(lower) ELSE 3))
    IN IF old # "Deity" /\ Search(being_patterns.fix_deity, lower) THEN "Deity"
       ELSE IF old = "Human" /\ Search(being_patterns.fix_spirit, lower) THEN "Spirit"
       ELSE IF old = "Human" /\ Search(being_patterns.fix_monster, lower) THEN "Monster"
       ELSE IF old # "Witch/Sorcerer" /\ Search(being_patterns.fix_witch, lower) THEN "Witch/Sorcerer"
       ELSE IF old = "Human" /\ chapter = "Animals"
            THEN IF /\ first_words \cap _human_subject_words = {}
                    /\ first_words \cap _deity_indicator_words = {}
                 THEN "Animal" ELSE old
       ELSE IF old = "Human" /\ chapter = "Monsters" /\ Search(being_patterns._monster_anywhere, lower)
            THEN "Monster"
       ELSE old

\* ------------------------------------------------------------------------
\* split_being.py: Being subcategory rules (the names carry the prefix sb_; the
\* script defines them under the names rf_classify.py uses)
\* ------------------------------------------------------------------------
\* split_being.py: the compiled patterns and the patterns searched in place, each
\* under its name in the script
sb_patterns == [
    \* line 62
    deity_subject |-> Pat(TRUE, <<P(W({"creator", "deities", "deity", "demigod", "demiurg", "divine",
        "divinit", "god", "godd", "goddess", "gods", "pantheon"}) \cup {<<"culture", "hero">>, <<"supreme",
        "being">>})>>),
    \* line 65
    deity_anywhere |-> Pat(FALSE, <<P(W({"deities", "deity", "demigod", "demiurg", "divine", "god's",
        "goddess's", "olymp", "pantheon"}) \cup {<<"culture", "hero">>, <<"god", "as">>, <<"god", "of">>,
        <<"goddess", "of">>, <<"gods", "and">>, <<"heavenly", "being">>, <<"heavenly", "beings">>, <<"of",
        "god">>, <<"of", "the", "gods">>})>>),
    \* line 69
    deity_names |-> Pat(FALSE, <<P(W({"allah", "amaterasu", "anansi", "aphrodite", "apollo", "ares",
        "artemis", "athena", "baal", "balder", "brahma", "brigid", "buddha", "cernunnos", "coyolxauhqui",
        "dagda", "danu", "demeter", "diana", "dionysus", "durga", "enki", "enlil", "eshu", "freya",
        "freyja", "frigg", "ganesh", "hades", "hanuman", "heimdall", "hephaestus", "hera", "hermes",
        "inanna", "indra", "ishtar", "isis", "izanagi", "izanami", "jehovah", "juno", "jupiter", "kali",
        "krishna", "lakshmi", "loki", "lugh", "manannan", "manannán", "marduk", "mars", "maui", "mercury",
        "minerva", "morrigan", "neptune", "njord", "odin", "osiris", "parvati", "pele", "persephone",
        "pluto", "poseidon", "quetzalcoatl", "ra", "rama", "saraswati", "saturn", "shiva", "siva",
        "susanoo", "tezcatlipoca", "thor", "tiamat", "tyr", "venus", "vishnu", "yahweh", "ymir",
        "zeus"}))>>),
    \* line 79
    creator_pattern |-> Pat(FALSE, <<P(W({"creator"}))>>),
    \* line 80
    parent_of_gods |-> Pat(FALSE, <<P(W({"ancestor", "birth", "born", "father", "mother", "parent"})),
        P(W({"deities", "god", "goddess", "gods"}))>>),
    \* line 81
    gods_pattern |-> Pat(FALSE, <<P({<<"of", "gods">>, <<"the", "gods">>})>>),
    \* line 102
    deity_start |-> Pat(TRUE, <<Pfx(W({"deity", "god", "goddess"}) \cup {<<"the", "god">>, <<"the",
        "goddess">>})>>),
    \* line 112
    witch_subject |-> Pat(TRUE, <<P(W({"conjurer", "enchanter", "enchantress", "hag", "magician",
        "necromancer", "shaman", "sorcerer", "sorceress", "warlock", "witch", "witches", "wizard"}) \cup
        {<<"cunning", "man">>, <<"cunning", "woman">>, <<"medicine", "man">>, <<"medicine", "woman">>})>>),
    \* line 116
    witch_anywhere |-> Pat(FALSE, <<P(W({"conjurer", "enchanter", "enchantress", "magician",
        "necromancer", "shaman", "sorcerer", "sorceress", "warlock", "witch", "witch's", "witches",
        "wizard"}))>>),
    \* line 129
    by_witch |-> Pat(FALSE, <<P({<<"by", "enchant">>, <<"by", "magician">>, <<"by", "sorcerer">>, <<"by",
        "witch">>, <<"by", "wizard">>})>>),
    \* line 134
    spirit_subject |-> Pat(TRUE, <<P(W({"angel", "angels", "archangel", "banshee", "bogey", "bogeyman",
        "brownie", "centaur", "changeling", "cherub", "demon", "demons", "devil", "devils", "djinn",
        "dwarf", "dwarfs", "dwarves", "elf", "elves", "fairies", "fairy", "fiend", "genie", "ghost",
        "ghosts", "ghoul", "gnome", "imp", "incubus", "jinn", "kelpie", "knocker", "kobold", "leprechaun",
        "lucifer", "merfolk", "mermaid", "merman", "muse", "naiad", "nixie", "nymph", "phantom", "pixie",
        "poltergeist", "revenant", "satan", "satyr", "selkie", "seraph", "siren", "soul", "souls",
        "specter", "spirit", "spirits", "sprite", "succubus", "sylph", "undead", "valkyrie", "vampire",
        "werewolf", "will-o", "wraith", "zombie"}) \cup {<<"dead", "man">>, <<"dead", "men">>, <<"dead",
        "people">>, <<"dead", "person">>, <<"dead", "woman">>, <<"the", "dead">>, <<"the", "departed">>})>>),
    \* line 144
    spirit_anywhere |-> Pat(FALSE, <<P(W({"angel", "angels", "archangel", "banshee", "bogey",
        "bogeyman", "brownie", "changeling", "cherub", "demon", "demons", "devil", "devils", "dwarf",
        "dwarfs", "dwarves", "elf", "elves", "fairies", "fairy", "fairy'", "fairys", "fiend", "ghost",
        "ghost'", "ghosts", "ghosts'", "ghostss", "ghoul", "gnome", "imp", "imps", "kelpie", "kobold",
        "leprechaun", "lucifer", "mermaid", "merman", "nixie", "phantom", "pixie", "poltergeist",
        "revenant", "satan", "satan'", "satans", "selkie", "seraph", "siren", "soul", "soul'", "souls",
        "souls'", "soulss", "specter", "spirit", "spirit'", "spirits", "spirits'", "spiritss", "undead",
        "vampire", "werewolf", "wraith", "zombie"}))>>),
    \* line 152
    dead_subject |-> Pat(TRUE, <<P(W({"dead", "ghost", "resuscitat"}) \cup {<<"return", "from",
        "dead">>, <<"return", "from", "the", "dead">>, <<"return", "of", "the", "dead">>, <<"the",
        "dead">>})>>),
    \* line 168
    spirit_word |-> Pat(FALSE, <<P(W({"angel", "angels", "demon", "demons", "devil", "devils", "dwarf",
        "dwarfs", "elf", "elfs", "fairy", "fairys", "ghost", "ghosts", "mermaid", "mermaids", "spirit",
        "spirits", "vampire", "vampires", "werewolf", "werewolfs"}))>>),
    \* line 173
    spirit_start |-> Pat(TRUE, <<Pfx(W({"angel", "demon", "devil", "dwarf", "elf", "fairy", "ghost",
        "mermaid", "spirit", "vampire", "werewolf"}) \cup {<<"the", "angel">>, <<"the", "demon">>, <<"the",
        "devil">>, <<"the", "dwarf">>, <<"the", "elf">>, <<"the", "fairy">>, <<"the", "ghost">>, <<"the",
        "mermaid">>, <<"the", "spirit">>, <<"the", "vampire">>, <<"the", "werewolf">>})>>),
    \* line 176
    of_the_spirit |-> Pat(FALSE, <<P({<<"of", "angel">>, <<"of", "demon">>, <<"of", "demons">>, <<"of",
        "devil">>, <<"of", "devils">>, <<"of", "dwarf">>, <<"of", "dwarfs">>, <<"of", "elves">>, <<"of",
        "fairies">>, <<"of", "fairy">>, <<"of", "ghost">>, <<"of", "spirit">>, <<"of", "spirits">>, <<"of",
        "the", "angel">>, <<"of", "the", "demon">>, <<"of", "the", "demons">>, <<"of", "the", "devil">>,
        <<"of", "the", "devils">>, <<"of", "the", "dwarf">>, <<"of", "the", "dwarfs">>, <<"of", "the",
        "elves">>, <<"of", "the", "fairies">>, <<"of", "the", "fairy">>, <<"of", "the", "ghost">>, <<"of",
        "the", "spirit">>, <<"of", "the", "spirits">>, <<"of", "the", "vampire">>, <<"of", "the",
        "vampires">>, <<"of", "vampire">>, <<"of", "vampires">>})>>),
    \* line 181
    monster_subject |-> Pat(TRUE, <<P(W({"basilisk", "behemoth", "cannibal", "cerberus", "chimera",
        "cyclop", "dragon", "dragons", "giant", "giants", "gorgon", "griffin", "hydra", "kraken",
        "leviathan", "maneater", "manticore", "minotaur", "monster", "monsters", "ogress", "phoenix",
        "seamonster", "sphinx", "thunderbird", "troll", "trolls", "unicorn", "watermonster"}) \cup {<<"man",
        "eater">>, <<"sea", "monster">>, <<"water", "monster">>, <<"wild", "man">>, <<"wild", "woman">>})>>),
    \* line 187
    monster_anywhere |-> Pat(FALSE, <<P(W({"basilisk", "cannibal", "cannibals", "cerberus", "chimera",
        "cyclop", "dragon", "dragons", "giant", "giant'", "giants", "giants'", "giantss", "gorgon",
        "griffin", "hydra", "kraken", "leviathan", "maneat", "manticore", "minotaur", "monster", "monsters",
        "ogress", "troll", "trolls"}) \cup {<<"man", "eat">>, <<"wild", "man">>, <<"wild", "woman">>})>>),
    \* line 192
    serpent_monster |-> Pat(FALSE, <<P({<<"great", "serpent">>, <<"monstrous", "serpent">>, <<"sea",
        "serpent">>, <<"serpent", "monster">>, <<"world", "serpent">>})>>),
    \* line 209
    of_the_monster |-> Pat(FALSE, <<P({<<"of", "dragon">>, <<"of", "dragons">>, <<"of", "giant">>, <<"of",
        "giants">>, <<"of", "monster">>, <<"of", "monsters">>, <<"of", "ogress">>, <<"of", "ogresss">>,
        <<"of", "the", "dragon">>, <<"of", "the", "dragons">>, <<"of", "the", "giant">>, <<"of", "the",
        "giants">>, <<"of", "the", "monster">>, <<"of", "the", "monsters">>, <<"of", "the", "ogress">>,
        <<"of", "the", "ogresss">>, <<"of", "the", "troll">>, <<"of", "the", "trolls">>, <<"of", "troll">>,
        <<"of", "trolls">>})>>),
    \* line 214
    animal_names |-> Pat(FALSE, <<P(W({"adder", "alligator", "ant", "antelope", "ants", "ape", "asp",
        "baboon", "badger", "bat", "bats", "bear", "bears", "beaver", "bee", "bees", "beetle", "blackbird",
        "boar", "buffalo", "bull", "butterfly", "camel", "cat", "caterpillar", "cats", "cheetah",
        "chimpanzee", "clam", "cobra", "cock", "cougar", "cow", "cows", "coyote", "crab", "crane",
        "cricket", "crocodile", "crow", "cuckoo", "deer", "dog", "dogs", "dolphin", "donkey", "dove",
        "duck", "eagle", "eel", "elephant", "ferret", "finch", "fish", "fishes", "flamingo", "flea",
        "flies", "fly", "fox", "frog", "gazelle", "geese", "giraffe", "goat", "goose", "gorilla",
        "grasshopper", "hare", "hawk", "hedgehog", "hen", "heron", "hippopotamus", "hornet", "horse",
        "horses", "hyena", "jackal", "jackdaw", "jaguar", "jay", "jellyfish", "lark", "leopard", "lion",
        "lizard", "lobster", "locust", "louse", "maggot", "magpie", "mice", "mink", "monkey", "mosquito",
        "moth", "mouse", "mule", "mussel", "nightingale", "octopus", "orangutan", "ostrich", "otter", "owl",
        "ox", "oxen", "oyster", "panther", "parrot", "partridge", "peacock", "pelican", "pheasant", "pig",
        "pigeon", "pigs", "porcupine", "puma", "python", "quail", "rabbit", "raccoon", "ram", "rat", "rats",
        "raven", "rhinoceros", "robin", "rook", "salmon", "scorpion", "seal", "seals", "serpent", "shark",
        "sheep", "skunk", "slug", "snail", "snake", "sparrow", "spider", "squid", "squirrel", "starfish",
        "starling", "stork", "swallow", "swan", "thrush", "tick", "tiger", "toad", "tortoise", "trout",
        "turkey", "turtle", "viper", "vulture", "wasp", "weasel", "whale", "wolf", "wolves", "woodpecker",
        "worm", "wren"}) \cup {<<"guinea", "fowl">>})>>),
    \* line 233
    animal_subject |-> Pat(TRUE, <<P(W({"animal", "animals", "ant", "ape", "badger", "bat", "bear",
        "beaver", "bee", "beetle", "bird", "birds", "boar", "buffalo", "bull", "butterfly", "camel", "cat",
        "clam", "cock", "cow", "coyote", "crab", "crane", "crocodile", "crow", "cuckoo", "deer", "dog",
        "dolphin", "donkey", "dove", "duck", "eagle", "eel", "elephant", "fish", "fishes", "flea", "flies",
        "fly", "fox", "frog", "goat", "goose", "hare", "hawk", "hedgehog", "hen", "heron", "horse", "hyena",
        "insect", "insects", "jackal", "leopard", "lion", "lizard", "lobster", "louse", "magpie", "monkey",
        "mosquito", "mouse", "mule", "octopus", "otter", "owl", "ox", "oyster", "parrot", "peacock",
        "phoenix", "pig", "rabbit", "ram", "rat", "raven", "salmon", "scorpion", "serpent", "shark",
        "sheep", "snail", "snake", "sparrow", "spider", "squirrel", "stork", "swan", "tiger", "toad",
        "tortoise", "turtle", "unicorn", "vulture", "weasel", "whale", "wolf", "worm"}) \cup {<<"the",
        "ant">>, <<"the", "bear">>, <<"the", "bee">>, <<"the", "buffalo">>, <<"the", "bull">>, <<"the",
        "camel">>, <<"the", "cat">>, <<"the", "cock">>, <<"the", "cow">>, <<"the", "coyote">>, <<"the",
        "crab">>, <<"the", "crocodile">>, <<"the", "crow">>, <<"the", "deer">>, <<"the", "dog">>, <<"the",
        "dolphin">>, <<"the", "donkey">>, <<"the", "dove">>, <<"the", "duck">>, <<"the", "eagle">>, <<"the",
        "eel">>, <<"the", "elephant">>, <<"the", "flea">>, <<"the", "fly">>, <<"the", "fox">>, <<"the",
        "frog">>, <<"the", "goat">>, <<"the", "goose">>, <<"the", "hare">>, <<"the", "hen">>, <<"the",
        "horse">>, <<"the", "jackal">>, <<"the", "lion">>, <<"the", "monkey">>, <<"the", "mouse">>, <<"the",
        "peacock">>, <<"the", "pig">>, <<"the", "rabbit">>, <<"the", "raven">>, <<"the", "sheep">>, <<"the",
        "snail">>, <<"the", "spider">>, <<"the", "swan">>, <<"the", "tiger">>, <<"the", "turtle">>, <<"the",
        "whale">>, <<"the", "wolf">>, <<"the", "worm">>})>>),
    \* line 285
    why_how |-> Pat(TRUE, <<P(W({"how", "why"}) \cup {<<"creation", "of">>, <<"origin", "of">>})>>),
    \* line 289
    animal_as |-> Pat(FALSE, <<P({<<"animal", "as">>, <<"animal", "bride">>, <<"animal", "grateful">>,
        <<"animal", "groom">>, <<"animal", "helper">>, <<"animal", "husband">>, <<"animal", "king">>,
        <<"animal", "language">>, <<"animal", "wife">>})>>),
    \* line 291
    helpful_animal |-> Pat(FALSE, <<P({<<"faithful", "animal">>, <<"faithful", "bear">>, <<"faithful",
        "bird">>, <<"faithful", "cat">>, <<"faithful", "dog">>, <<"faithful", "eagle">>, <<"faithful",
        "fish">>, <<"faithful", "fox">>, <<"faithful", "horse">>, <<"faithful", "lion">>, <<"faithful",
        "raven">>, <<"faithful", "serpent">>, <<"faithful", "snake">>, <<"faithful", "wolf">>, <<"grateful",
        "animal">>, <<"grateful", "bear">>, <<"grateful", "bird">>, <<"grateful", "cat">>, <<"grateful",
        "dog">>, <<"grateful", "eagle">>, <<"grateful", "fish">>, <<"grateful", "fox">>, <<"grateful",
        "horse">>, <<"grateful", "lion">>, <<"grateful", "raven">>, <<"grateful", "serpent">>, <<"grateful",
        "snake">>, <<"grateful", "wolf">>, <<"helpful", "animal">>, <<"helpful", "bear">>, <<"helpful",
        "bird">>, <<"helpful", "cat">>, <<"helpful", "dog">>, <<"helpful", "eagle">>, <<"helpful", "fish">>,
        <<"helpful", "fox">>, <<"helpful", "horse">>, <<"helpful", "lion">>, <<"helpful", "raven">>,
        <<"helpful", "serpent">>, <<"helpful", "snake">>, <<"helpful", "wolf">>, <<"speaking", "animal">>,
        <<"speaking", "bear">>, <<"speaking", "bird">>, <<"speaking", "cat">>, <<"speaking", "dog">>,
        <<"speaking", "eagle">>, <<"speaking", "fish">>, <<"speaking", "fox">>, <<"speaking", "horse">>,
        <<"speaking", "lion">>, <<"speaking", "raven">>, <<"speaking", "serpent">>, <<"speaking", "snake">>,
        <<"speaking", "wolf">>, <<"talking", "animal">>, <<"talking", "bear">>, <<"talking", "bird">>,
        <<"talking", "cat">>, <<"talking", "dog">>, <<"talking", "eagle">>, <<"talking", "fish">>,
        <<"talking", "fox">>, <<"talking", "horse">>, <<"talking", "lion">>, <<"talking", "raven">>,
        <<"talking", "serpent">>, <<"talking", "snake">>, <<"talking", "wolf">>, <<"treacherous",
        "animal">>, <<"treacherous", "bear">>, <<"treacherous", "bird">>, <<"treacherous", "cat">>,
        <<"treacherous", "dog">>, <<"treacherous", "eagle">>, <<"treacherous", "fish">>, <<"treacherous",
        "fox">>, <<"treacherous", "horse">>, <<"treacherous", "lion">>, <<"treacherous", "raven">>,
        <<"treacherous", "serpent">>, <<"treacherous", "snake">>, <<"treacherous", "wolf">>})>>),
    \* line 297
    human_subject |-> Pat(TRUE, <<P(W({"baker", "bandit", "beggar", "bishop", "blacksmith", "boy",
        "bride", "brother", "carpenter", "child", "children", "clergyman", "clever", "cobbler", "criminal",
        "daughter", "eldest", "farmer", "father", "fisherman", "fool", "girl", "groom", "hermit", "hero",
        "heroine", "human", "hunter", "husband", "imam", "innkeeper", "king", "knight", "lad", "lady",
        "lass", "lazy", "lord", "lover", "maiden", "man", "master", "men", "merchant", "miller", "monk",
        "mortal", "mother", "murderer", "nobleman", "nun", "orphan", "outlaw", "paramour", "pastor",
        "peasant", "people", "person", "pirate", "poor", "pope", "priest", "prince", "princess", "prophet",
        "queen", "rabbi", "rich", "robber", "saint", "servant", "shepherd", "sister", "slave", "soldier",
        "son", "stepbrother", "stepdaughter", "stepfather", "stepmother", "stepsister", "stepson", "stupid",
        "suitor", "tailor", "thief", "trickster", "warrior", "widow", "wife", "woman", "women", "youngest",
        "youth"}))>>),
    \* line 423
    fix_deity |-> Pat(TRUE, <<P(W({"creator", "deity", "demigod", "god", "godd", "goddess", "gods"}) \cup
        {<<"culture", "hero">>, <<"the", "creator">>, <<"the", "god">>, <<"the", "goddess">>})>>),
    \* line 427
    fix_spirit |-> Pat(TRUE, <<P(W({"angel", "banshee", "demon", "devil", "dwarf", "elf", "elves",
        "fairies", "fairy", "ghost", "mermaid", "phantom", "satan", "soul", "spirit", "vampire",
        "werewolf"}) \cup {<<"the", "angel">>, <<"the", "demon">>, <<"the", "devil">>, <<"the", "fairy">>,
        <<"the", "ghost">>, <<"the", "spirit">>})>>),
    \* line 431
    fix_monster |-> Pat(TRUE, <<P(W({"cannibal", "cyclop", "dragon", "giant", "monster", "ogress", "troll"})
        \cup {<<"the", "dragon">>, <<"the", "giant">>, <<"the", "monster">>, <<"the", "troll">>})>>),
    \* line 435
    fix_witch |-> Pat(TRUE, <<P(W({"enchanter", "enchantress", "magician", "sorcerer", "sorceress",
        "witch", "witches", "wizard"}) \cup {<<"the", "sorcerer">>, <<"the", "witch">>, <<"the",
        "wizard">>})>>)
]

\* lower.startswith("the gods")
sb_the_gods_start == Pat(TRUE, <<Pfx({<<"the", "gods">>})>>)

\* any(w in lower for w in ["man", "woman", "hero", "mortal", "human"])
sb_human_text == Pat(FALSE, <<Sub(W({"man", "woman", "hero", "mortal", "human"}))>>)

\* any(w in lower for w in ["king of the gods", ...])
sb_of_the_gods_text ==
    Pat(FALSE, <<Sub({<<"king", "of", "the", "gods">>, <<"queen", "of", "the", "gods">>,
                      <<"war", "of", "the", "gods">>, <<"death", "of", "the", "gods">>,
                      <<"home", "of", "the", "gods">>, <<"food", "of", "the", "gods">>,
                      <<"gift", "of", "the", "gods">>, <<"wrath", "of", "the", "gods">>})>>)

sb_is_deity(name, chapter) ==
    LET lower == Lower(name)
        first == _first_words(name, 4)
    IN \/ Search(sb_patterns.deity_subject, first)
       \/ Search(sb_patterns.deity_names, lower)
       \/ Search(sb_patterns.parent_of_gods, lower)
       \/ Search(sb_the_gods_start, lower)
       \/ (Len(lower) >= 2 /\ lower[1] = "gods")
       \/ (Search(sb_patterns.creator_pattern, lower) /\ chapter = "Myths")
       \/ Search(sb_patterns.deity_start, lower)
       \/ /\ Search(sb_patterns.gods_pattern, lower)
          /\ ~Search(sb_human_text, lower)
          /\ Search(sb_of_the_gods_text, lower)

sb_is_witch(name, chapter) ==
    LET lower == Lower(name)
        first == _first_words(name, 4)
    IN \/ Search(sb_patterns.witch_subject, first)
       \/ (chapter = "Monsters" /\ Search(sb_patterns.witch_anywhere, lower))
       \/ Search(sb_patterns.by_witch, lower)

sb_is_spirit(name, chapter) ==
    LET lower == Lower(name)
        first == _first_words(name, 4)
    IN \/ Search(sb_patterns.spirit_subject, first)
       \/ (chapter = "Death" /\ Search(sb_patterns.spirit_anywhere, lower))
       \/ (chapter = "Death" /\ Search(sb_patterns.dead_subject, lower))
       \/ Search(sb_patterns.spirit_anywhere, first)
       \/ /\ Search(sb_patterns.spirit_word, lower)
          /\ \/ chapter \in {"Marvels", "Death", "Monsters", "Religion"}
             \/ Search(sb_patterns.spirit_start, lower)
             \/ Search(sb_patterns.of_the_spirit, lower)

sb_is_monster(name, chapter) ==
    LET lower == Lower(name)
        first == _first_words(name, 4)
    IN \/ Search(sb_patterns.monster_subject, first)
       \/ (chapter = "Monsters" /\ Search(sb_patterns.monster_anywhere, lower))
       \/ Search(sb_patterns.monster_anywhere, first)
       \/ Search(sb_patterns.serpent_monster, lower)
       \/ Search(sb_patterns.of_the_monster, lower)

\* split_being.py defines the same set of words as rf_classify.py (lines 251-259).
sb_is_animal(name, chapter) ==
    LET lower == Lower(name)
        first == _first_words(name, 3)
        first_three == ToSet(_first_words(name, 3))
    IN IF Search(sb_patterns.animal_subject, first) THEN TRUE
       ELSE IF chapter = "Animals" THEN first_three \cap _human_subject_words = {}
       ELSE IF first_three \cap _human_subject_words # {} THEN FALSE
       ELSE \/ (Search(sb_patterns.why_how, lower) /\ Search(sb_patterns.animal_names, lower))
            \/ Search(sb_patterns.animal_as, lower)
            \/ Search(sb_patterns.helpful_animal, lower)

sb_is_human(name, chapter) ==
    \/ Search(sb_patterns.human_subject, _first_words(name, 3))
    \/ chapter \in HumanChapters

\* classify_being of split_being.py: the tests in the order the function applies them.
sb_classify_being(name, chapter) ==
    IF sb_is_witch(name, chapter) THEN "Witch/Sorcerer"
    ELSE IF sb_is_deity(name, chapter) THEN "Deity"
    ELSE IF sb_is_spirit(name, chapter) THEN "Spirit"
    ELSE IF sb_is_monster(name, chapter) THEN "Monster"
    ELSE IF sb_is_animal(name, chapter) THEN "Animal"
    ELSE IF sb_is_human(name, chapter) THEN "Human"
    ELSE None

\* One pass of the post-classification correction loop of split_being.py over a Being
\* record whose subcategory is old.
sb_post_correction(name, chapter, old) ==
    LET lower == Lower(name)
        first_words == ToSet(SubSeq(lower, 1, IF Len(lower) < 3 THEN Len(lower) ELSE 3))
    IN IF old = "Human" /\ Search(sb_patterns.fix_deity, lower) THEN "Deity"
       ELSE IF old = "Human" /\ Search(sb_patterns.fix_spirit, lower) THEN "Spirit"
       ELSE IF old = "Human" /\ Search(sb_patterns.fix_monster, lower) THEN "Monster"
       ELSE IF old # "Witch/Sorcerer" /\ Search(sb_patterns.fix_witch, lower) THEN "Witch/Sorcerer"
       ELSE IF old = "Human" /\ chapter = "Animals"
            THEN IF first_words \cap _human_subject_words = {} THEN "Animal" ELSE old
       ELSE IF old = "Human" /\ chapter = "Monsters" /\ Search(sb_patterns.monster_anywhere, lower)
            THEN "Monster"
       ELSE old

\* ------------------------------------------------------------------------
\* Inputs of the scripts
\* ------------------------------------------------------------------------
\* Extra records appended to the base dataset
MaxExtra == 1

\* Labels accepted from the validator in one run, and entries of one response
MaxAnswers == 2

Row(id, name, desc, chapter) == [id |-> id, name |-> name, desc |-> desc, chapter |-> chapter]

Motif(name, chapter) == Row("m", name, <<>>, chapter)

\* open(..., encoding="utf-8", errors="replace"): a word that holds a byte which is not
\* UTF-8 is read with U+FFFD in its place.
decode(w) == IF w = "h<e9>ro" THEN "h<fffd>ro" ELSE w

\* csv.DictReader over the decoded file: one dict per row
DictReader(csv) ==
    [i \in DOMAIN csv |->
       [id |-> decode(csv[i].id),
        name |-> [k \in DOMAIN csv[i].name |-> decode(csv[i].name[k])],
        desc |-> [k \in DOMAIN csv[i].desc |-> decode(csv[i].desc[k])],
        chapter |-> decode(csv[i].chapter)]]

\* tmi.csv: five kings (three of them with the same name), three castles, one tabu
TmiBase == <<
    Motif(<<"king">>, "Society"), Motif(<<"king">>, "Society"),
    Motif(<<"King", "bread">>, "Society"), Motif(<<"king", "bread">>, "Society"),
    Motif(<<"king">>, "Society"), Motif(<<"the", "king">>, "Society"),
    Motif(<<"fox">>, "Animals"), Motif(<<"god">>, "Myths"),
    Motif(<<"castle">>, "Marvels"), Motif(<<"castle">>, "Marvels"),
    Motif(<<"castle">>, "Marvels"), Motif(<<"Tabu">>, "Tabu") >>

\* tmi.csv with ten motifs that end in Being: nine by rule, and "bread" by prediction
TmiTen == <<
    Motif(<<"king">>, "Society"), Motif(<<"king">>, "Society"),
    Motif(<<"king">>, "Society"), Motif(<<"king">>, "Marvels"),
    Motif(<<"king">>, "Marvels"), Motif(<<"god">>, "Myths"),
    Motif(<<"god">>, "Myths"), Motif(<<"fox">>, "Animals"),
    Motif(<<"witch">>, "Marvels"), Motif(<<"bread">>, "Marvels")>>

TmiExtras == {Motif(<<"bread">>, "Marvels"), Motif(<<"sword">>, "Society")}

TmiSmall == <<Motif(<<"king">>, "Society"), Motif(<<"castle">>, "Marvels")>>

\* tmi.csv whose rule-matched rows all fall in one category, with one unmatched row
\* tmi.csv with two rule categories of two rows each and one unmatched row
TmiFew == <<
    Motif(<<"king">>, "Society"), Motif(<<"king">>, "Society"),
    Motif(<<"castle">>, "Marvels"), Motif(<<"castle">>, "Marvels"),
    Motif(<<"bread">>, "Myths")>>

TmiOneClass == <<
    Motif(<<"king">>, "Society"), Motif(<<"king">>, "Society"),
    Motif(<<"king">>, "Marvels"), Motif(<<"king">>, "Marvels"),
    Motif(<<"king">>, "Myths"), Motif(<<"king">>, "Myths"),
    Motif(<<"bread">>, "Animals")>>

Trope(id, name, desc) == Row(id, name, desc, "")

\* tropes.csv: the last row repeats the TropeID of the first; the description of t8
\* holds a byte that is not UTF-8
TropesBase == <<
    Trope("t1", <<"Hero">>, <<>>), Trope("t2", <<"Big", "Bad">>, <<>>),
    Trope("t3", <<"Bad", "Hero">>, <<"power">>), Trope("t4", <<"The", "Hero">>, <<>>),
    Trope("t5", <<"Banana">>, <<"hero">>), Trope("t6", <<"Sword">>, <<>>),
    Trope("t7", <<"Sword">>, <<"power">>), Trope("t8", <<"Banana">>, <<"h<e9>ro">>),
    Trope("t1", <<"Castle">>, <<>>) >>

TropesExtras == {Trope("t9", <<"Banana">>, <<"big">>), Trope("t2", <<"Sword">>, <<>>)}

TropesSmall == <<Trope("t1", <<"Hero">>, <<>>)>>

\* one-row files whose row falls under a rule of a category the documentation omits
TropesPower == <<Trope("t1", <<"power">>, <<>>)>>

TmiEvent == <<Motif(<<"dream">>, "Marvels")>>

Scripts == {"cluster_tmi", "cluster_tropes", "rf_classify"}

SeqsUpTo(S, n) == UNION {[1..k -> S] : k \in 0..n}

Inputs(s) ==
    IF s = "cluster_tropes"
    THEN {TropesBase \o x : x \in SeqsUpTo(TropesExtras, MaxExtra)} \cup {TropesSmall, TropesPower, <<>>}
    ELSE {TmiBase \o x : x \in SeqsUpTo(TmiExtras, MaxExtra)} \cup {TmiSmall, TmiOneClass, TmiTen, TmiFew, TmiEvent,
          <<>>}

\* The columns the load loop reads with row[...]; Description is read with row.get.
Required(s) ==
    IF s = "cluster_tropes" THEN {"TropeID", "Trope"}
    ELSE {"id", "motif_name", "chapter_name", "level"}

AllColumns(s) == IF s = "cluster_tropes" THEN Required(s) \cup {"Description"} ELSE Required(s)

\* Headers of the input file: every column, or one required column missing (the short
\* files only).
Headers(s, csv) ==
    {AllColumns(s)} \cup
       (IF Len(csv) <= 1 THEN {AllColumns(s) \ {c} : c \in Required(s)} ELSE {})

\* ------------------------------------------------------------------------
\* Sequences and sets of record indices
\* ------------------------------------------------------------------------
Min(S) == CHOOSE x \in S : \A y \in S : x <= y

Max(S) == CHOOSE x \in S : \A y \in S : x >= y

Reverse(s) == [i \in 1..Len(s) |-> s[Len(s) + 1 - i]]

\* The members of S in the order sorted() gives (key, index) pairs.
SortBy(S, key) ==
    LET rank(i) == Cardinality({j \in S : key[j] < key[i] \/ (key[j] = key[i] /\ j < i)}) + 1
    IN [k \in 1..Cardinality(S) |-> CHOOSE i \in S : rank(i) = k]

Ascending(S) == SortBy(S, [i \in S |-> 0])

Take(s, n) == SubSeq(s, 1, IF Len(s) < n THEN Len(s) ELSE n)

Drop(s, n) == SubSeq(s, n + 1, Len(s))

Count(f, v) == Cardinality({i \in DOMAIN f : f[i] = v})

EmptyMap == [i \in {} |-> None]

\* ------------------------------------------------------------------------
\* Text preparation
\* ------------------------------------------------------------------------
\* split_camel: a CamelCase name is held as its humps; the result is their lower case.
split_camel(name) == Lower(name)

max_chars == 300

\* truncate_desc: a description longer than max_chars is cut to desc[:max_chars] and
\* then loses what follows its last blank: the word the cut falls in, or the last whole
\* word when the cut falls right after it. (No word of the model is longer than
\* max_chars, so the cut text always holds a whole word.)
truncate_desc(desc) ==
    IF CharLen(desc, 1, Len(desc)) - 1 <= max_chars THEN Lower(desc)
    ELSE LET k == Max({j \in 1..Len(desc) : CharLen(desc, 1, j) - 1 <= max_chars})
         IN Lower(SubSeq(desc, 1, IF CharLen(desc, 1, k) - 1 = max_chars /\ k >= 2
                                   THEN k - 1 ELSE k))

\* preprocess: lower case; the names of the model hold letters only
preprocess(name) == Lower(name)

ChapterToken(chapter) ==
    CASE chapter = "Society" -> "__ch_society"
      [] chapter = "Marvels" -> "__ch_marvels"
      [] chapter = "Animals" -> "__ch_animals"
      [] chapter = "Myths" -> "__ch_myths"
      [] chapter = "Tabu" -> "__ch_tabu"
      [] OTHER -> "__ch_other"

\* stop_words="english", over the words of the vocabulary
StopWords == {"the", "of", "for"}

\* The document the vectorizer sees for a record.
DocText(s, r) ==
    IF s = "cluster_tropes"
    THEN SelectSeq(split_camel(r.name) \o split_camel(r.name) \o truncate_desc(r.desc),
                   LAMBDA w : w \notin StopWords)
    ELSE preprocess(r.name) \o <<ChapterToken(r.chapter)>>

\* Unigrams and bigrams of the tokens of two or more characters.
Terms(doc) ==
    LET toks == SelectSeq(doc, LAMBDA w : WordLen(w) >= 2)
    IN {<<toks[i]>> : i \in 1..Len(toks)}
         \cup {<<toks[i], toks[i + 1]>> : i \in 1..(Len(toks) - 1)}

min_df == 2

\* max_df as a fraction: 0.5 (cluster_tmi, rf_classify), 0.4 (cluster_tropes)
max_df(s) == IF s = "cluster_tropes" THEN <<2, 5>> ELSE <<1, 2>>

\* The terms TfidfVectorizer.fit_transform keeps: min_df <= df <= max_df * n.
Vocabulary(docs, mdf) ==
    LET n == Cardinality(DOMAIN docs)
        df(t) == Cardinality({i \in DOMAIN docs : t \in Terms(docs[i])})
    IN {t \in UNION {Terms(docs[i]) : i \in DOMAIN docs} :
          df(t) >= min_df /\ df(t) * mdf[2] <= mdf[1] * n}

\* fit_transform raises ValueError when max_df * n < min_df or no term is left.
VectorizerRaises(docs, mdf) ==
    \/ mdf[1] * Cardinality(DOMAIN docs) < min_df * mdf[2]
    \/ Vocabulary(docs, mdf) = {}

cv == 5

\* cross_val_score(cv=5) stratifies by class and raises when no class has cv members.
CrossValRaises(y) == ~\E i \in DOMAIN y : Count(y, y[i]) >= cv

Classes(y) == {y[i] : i \in DOMAIN y}

\* ------------------------------------------------------------------------
\* rf_classify.py: validator responses and query_ollama
\* ------------------------------------------------------------------------
MAIN_CATS ==
    <<"Being", "Action", "Place", "Event", "Object", "Origin", "Attribute", "Condition",
      "Outcome">>

BEING_SUBCATS == <<"Deity", "Human", "Animal", "Spirit", "Monster", "Witch/Sorcerer">>

batch_size == 10

\* One "key": value pair of the JSON object in a response; numeric says whether
\* int(key) succeeds.
Entry(key, numeric, val) == [key |-> key, numeric |-> numeric, val |-> val]

\* What the service may answer with: for the main categories two permitted labels and
\* a subcategory name, for the subcategories two permitted labels and a main category.
ResponseLabels(call) ==
    IF call = "main" THEN {"Being", "Place", "Deity"} ELSE {"Deity", "Human", "Being"}

\* Item numbers a response may carry for a batch of n items: below, inside and above
\* the range.
ResponseKeys(n) == {0, 1, 2, n + 1}

Entries(call, n) ==
    {Entry(k, TRUE, v) : k \in ResponseKeys(n), v \in ResponseLabels(call)}
      \cup {Entry(1, FALSE, v) : v \in {"Place", "Human"} \cap ResponseLabels(call)}

\* A JSON object has each key once.
EntryLists(call, n, m) ==
    {s \in SeqsUpTo(Entries(call, n), m) :
        \A i, j \in DOMAIN s : i # j => <<s[i].key, s[i].numeric>> # <<s[j].key, s[j].numeric>>}

FailureKinds == {"timeout", "connection_error", "http_error", "not_json", "json_array"}

\* The outcomes of one requests.post: a failure, or a JSON object of at most m entries.
Responses(call, n, m) ==
    [kind : FailureKinds, entries : {<<>>}]
      \cup [kind : {"ok"}, entries : EntryLists(call, n, m)]

\* query_ollama that reads a response whatever happened
query_never_raises(resp) == FALSE

\* The try block raises: the request fails, the text holds no JSON object, or a key
\* is not an integer.
query_raises(resp) ==
    \/ resp.kind # "ok"
    \/ \E e \in DOMAIN resp.entries : ~resp.entries[e].numeric

\* The check of line 741 without the test of the label
label_accepted_any(key, label, motifs, labels) == 0 <= key - 1 /\ key - 1 < Len(motifs)

\* idx = int(key) - 1; 0 <= idx < len(motifs) and val in valid_labels
label_accepted(key, val, motifs, valid_labels) ==
    /\ 0 <= key - 1
    /\ key - 1 < Len(motifs)
    /\ val \in ToSet(valid_labels)

\* query_ollama: the dict {motif name: label} built from a response; a later entry
\* for the same name replaces an earlier one.
query_ollama(has_requests, motifs, valid_labels, resp) ==
    IF ~has_requests \/ query_raises(resp) THEN EmptyMap
    ELSE LET ok == {e \in DOMAIN resp.entries :
                      label_accepted(resp.entries[e].key, resp.entries[e].val,
                                     motifs, valid_labels)}
             nameOf(e) == motifs[resp.entries[e].key]
         IN [name \in {nameOf(e) : e \in ok} |->
               resp.entries[Max({e \in ok : nameOf(e) = name})].val]

\* ------------------------------------------------------------------------
\* rf_classify.py: the validation samples
\* ------------------------------------------------------------------------
SubsetsOfSize(S, n) == {T \in SUBSET S : Cardinality(T) = n}

\* The sample taken from the records of one label: the n_low least confident and
\* n_random others chosen at random; nothing when there are fewer than 3.
SamplesOf(members, confidence, n_low, n_random) ==
    IF Cardinality(members) < 3 THEN {<<>>}
    ELSE LET sorted == SortBy(members, confidence)
             low == Take(sorted, n_low)
             remaining == ToSet(Drop(sorted, n_low))
             size == IF Cardinality(remaining) < n_random
                     THEN Cardinality(remaining) ELSE n_random
         IN {low \o Ascending(pick) : pick \in SubsetsOfSize(remaining, size)}

\* The samples the stratified loop can build over labels[k..], before cap and shuffle.
RECURSIVE Stratified(_, _, _, _, _, _, _)
Stratified(labels, k, among, current, confidence, n_low, n_random) ==
    IF k > Len(labels) THEN {<<>>}
    ELSE {s \o t :
            s \in SamplesOf({i \in among : current[i] = labels[k]}, confidence,
                            n_low, n_random),
            t \in Stratified(labels, k + 1, among, current, confidence, n_low, n_random)}

\* np.random.shuffle: the orders considered
Shuffles(s) == {s, Reverse(s)}

\* ------------------------------------------------------------------------
\* State
\* ------------------------------------------------------------------------
VARIABLES
    fn_arg,                 \* the arguments a rule function is applied to
    fn_res,                 \* [op, val]: the function applied and what it returned
    script,                 \* the script that runs
    input,                  \* the rows of the CSV file the script reads
    columns,                \* the columns in the header of that file
    HAS_REQUESTS,           \* rf_classify.py: the requests library was imported
    pc,                     \* the step the script is at
    abort_at,               \* the step an uncaught exception ended the run at
    rows,                   \* the loaded records
    categories,             \* categories[i]: category of record i, or None
    labeled_idx,            \* records the rules labeled
    unlabeled_idx,          \* records the rules left without a category
    clf,                    \* the fitted classifier: its classes
    max_probs,              \* confidence of the prediction for an unlabeled record
    being_idx,              \* rf_classify.py: the records of category Being
    subcategories,
    unlabeled_mask,         \* Being records without a rule subcategory
    rf_being,
    being_max_probs,
    main_sample_idx,
    being_sample_idx,
    val,                    \* ollama_validate in progress: call, batch_start, labels
    main_ollama,
    being_ollama,
    ollama_corrections_main,
    out_csv,                \* the CSV file written, or None
    report,                 \* the report file written, or None
    report_lines,           \* rf_classify.py: the validation details of the report
    origin,                 \* history: what produced the current category of a record
    first_cat,              \* history: the first category a record received
    fits,                   \* history: <<fit, origin of a training label>>
    answered,               \* history: the accepted label returned for a record's item
    batches,                \* history: the batches queried
    before_validation,      \* history: categories and subcategories before validation
    n_answers,              \* history: labels accepted so far
    retrained,              \* history: the retrain was performed
    disk,                   \* the files split_being.py and rename_ogre.py read and write
    disk0,                  \* history: the files as they were when the script started
    fieldnames,             \* split_being.py: the header of the CSV file it writes
    runs                    \* scripts started so far

fnvars == <<fn_arg, fn_res>>

envvars == <<script, input, columns, HAS_REQUESTS>>

runvars ==
    <<pc, abort_at, rows, categories, labeled_idx, unlabeled_idx, clf, max_probs,
      being_idx, subcategories, unlabeled_mask, rf_being, being_max_probs,
      main_sample_idx, being_sample_idx, val, main_ollama, being_ollama,
      ollama_corrections_main, out_csv, report, report_lines>>

histvars ==
    <<origin, first_cat, fits, answered, batches, before_validation, n_answers, retrained>>

postvars == <<disk, disk0, fieldnames, runs>>

vars == <<fnvars, envvars, runvars, histvars, postvars>>

\* confidence 1.0, and the confidences below it
ConfOne == 2

ConfLevels == 1..ConfOne

NoValidation == [call |-> "none", batch_start |-> 0, labels |-> EmptyMap]

NoAnswers == [main |-> EmptyMap, being |-> EmptyMap]

NoFile == [exists |-> FALSE, fieldnames |-> <<>>, rows |-> <<>>]

NoText == [exists |-> FALSE, text |-> <<>>]

\* None of the files of the post-processing scripts is there.
NoDisk == [clustered |-> NoFile, tmp |-> NoFile, report |-> NoText, images |-> {}]

\* Nothing has run yet.
Fresh ==
    /\ abort_at = None
    /\ rows = <<>>
    /\ categories = <<>>
    /\ labeled_idx = {}
    /\ unlabeled_idx = {}
    /\ clf = [classes |-> {}]
    /\ max_probs = EmptyMap
    /\ being_idx = {}
    /\ subcategories = <<>>
    /\ unlabeled_mask = {}
    /\ rf_being = [classes |-> {}]
    /\ being_max_probs = EmptyMap
    /\ main_sample_idx = <<>>
    /\ being_sample_idx = <<>>
    /\ val = NoValidation
    /\ main_ollama = EmptyMap
    /\ being_ollama = EmptyMap
    /\ ollama_corrections_main = 0
    /\ out_csv = None
    /\ report = None
    /\ report_lines = [main |-> EmptyMap, being |-> EmptyMap]
    /\ origin = <<>>
    /\ first_cat = <<>>
    /\ fits = {}
    /\ answered = NoAnswers
    /\ batches = <<>>
    /\ before_validation = None
    /\ n_answers = 0
    /\ retrained = FALSE
    /\ fieldnames = <<>>

NoArg == [kind |-> "none", name |-> <<>>, desc |-> <<>>]

NoResult == [op |-> "none", val |-> None]

Init ==
    /\ fn_arg = NoArg
    /\ fn_res = NoResult
    /\ script \in Scripts
    /\ input \in Inputs(script)
    /\ columns \in Headers(script, input)
    /\ HAS_REQUESTS \in (IF script = "rf_classify" THEN BOOLEAN ELSE {FALSE})
    /\ pc = "load"
    /\ Fresh
    /\ disk = NoDisk
    /\ disk0 = NoDisk
    /\ runs = 1

Abort(where) == pc' = "aborted" /\ abort_at' = where

Goto(step) == pc' = step /\ UNCHANGED abort_at

\* ------------------------------------------------------------------------
\* Steps shared by the three scripts
\* ------------------------------------------------------------------------
\* cluster_tropes.py keeps the first row of every TropeID.
unique_tropes(csv) ==
    LET keep == Ascending({i \in DOMAIN csv : \A j \in 1..(i - 1) : csv[j].id # csv[i].id})
    IN [k \in DOMAIN keep |-> csv[keep[k]]]

\* Step 1: row["id"], row["TropeID"], ... raise KeyError on the first row when the
\* header lacks the column.
Load ==
    /\ pc = "load"
    /\ IF Len(input) > 0 /\ ~(Required(script) \subseteq columns)
       THEN Abort("load") /\ UNCHANGED rows
       ELSE /\ rows' = IF script = "cluster_tropes" THEN unique_tropes(DictReader(input))
                       ELSE DictReader(input)
            /\ Goto("rules")
    /\ UNCHANGED <<fn_arg, fn_res, script, input, columns, HAS_REQUESTS, categories,
                     labeled_idx, unlabeled_idx, clf, max_probs, being_idx,
                     subcategories, unlabeled_mask, rf_being, being_max_probs,
                     main_sample_idx, being_sample_idx, val, main_ollama, being_ollama,
                     ollama_corrections_main, out_csv, report, report_lines, origin,
                     first_cat, fits, answered, batches, before_validation, n_answers,
                     retrained, disk, disk0, fieldnames, runs>>

RuleCategory(s, r) ==
    CASE s = "cluster_tmi" -> classify_rule(r.name)
      [] s = "cluster_tropes" ->
            tropes_classify_rule(split_camel(r.name), truncate_desc(r.desc))
      [] OTHER -> classify_main(r.name)

\* The rule loop; the summary it prints divides by len(rows).
ApplyRules ==
    /\ pc = "rules"
    /\ categories' = [i \in DOMAIN rows |-> RuleCategory(script, rows[i])]
    /\ origin' = [i \in DOMAIN rows |-> IF categories'[i] = None THEN "none" ELSE "rule"]
    /\ first_cat' = categories'
    /\ IF Len(rows) = 0 THEN Abort("rules") ELSE Goto("vectorize")
    /\ UNCHANGED <<fn_arg, fn_res, script, input, columns, HAS_REQUESTS, rows,
                     labeled_idx, unlabeled_idx, clf, max_probs, being_idx,
                     subcategories, unlabeled_mask, rf_being, being_max_probs,
                     main_sample_idx, being_sample_idx, val, main_ollama, being_ollama,
                     ollama_corrections_main, out_csv, report, report_lines, fits,
                     answered, batches, before_validation, n_answers, retrained, disk,
                     disk0, fieldnames, runs>>

labeled_of(cats) == {i \in DOMAIN cats : cats[i] # None}

\* unlabeled_idx when no record is taken as unlabeled
unlabeled_none(cats) == {}

unlabeled_of(cats) == {i \in DOMAIN cats : cats[i] = None}

Vectorize ==
    /\ pc = "vectorize"
    /\ IF VectorizerRaises([i \in DOMAIN rows |-> DocText(script, rows[i])], max_df(script))
       THEN Abort("vectorize") /\ UNCHANGED <<labeled_idx, unlabeled_idx>>
       ELSE /\ labeled_idx' = labeled_of(categories)
            /\ unlabeled_idx' = unlabeled_of(categories)
            /\ Goto("cv")
    /\ UNCHANGED <<fn_arg, fn_res, script, input, columns, HAS_REQUESTS, rows,
                     categories, clf, max_probs, being_idx, subcategories,
                     unlabeled_mask, rf_being, being_max_probs, main_sample_idx,
                     being_sample_idx, val, main_ollama, being_ollama,
                     ollama_corrections_main, out_csv, report, report_lines, origin,
                     first_cat, fits, answered, batches, before_validation, n_answers,
                     retrained, disk, disk0, fieldnames, runs>>

\* SGDClassifier.fit raises on fewer than two classes; with one class every fold of
\* the cross-validation fails, which raises or yields NaN scores by library version.
CrossValidate ==
    /\ pc = "cv"
    /\ LET y == [i \in labeled_idx |-> categories[i]]
       IN IF CrossValRaises(y) THEN Abort("cv")
          ELSE IF script # "rf_classify" /\ Cardinality(Classes(y)) < 2
               THEN Abort("cv") \/ Goto("fit")
          ELSE Goto("fit")
    /\ UNCHANGED <<fn_arg, fn_res, script, input, columns, HAS_REQUESTS, rows,
                     categories, labeled_idx, unlabeled_idx, clf, max_probs, being_idx,
                     subcategories, unlabeled_mask, rf_being, being_max_probs,
                     main_sample_idx, being_sample_idx, val, main_ollama, being_ollama,
                     ollama_corrections_main, out_csv, report, report_lines, origin,
                     first_cat, fits, answered, batches, before_validation, n_answers,
                     retrained, disk, disk0, fieldnames, runs>>

Fit ==
    /\ pc = "fit"
    /\ LET y == [i \in labeled_idx |-> categories[i]]
       IN IF script # "rf_classify" /\ Cardinality(Classes(y)) < 2
          THEN Abort("fit") /\ UNCHANGED <<clf, fits>>
          ELSE /\ clf' = [classes |-> Classes(y)]
               /\ fits' = fits \cup {<<"fit", origin[i]>> : i \in labeled_idx}
               /\ Goto("predict")
    /\ UNCHANGED <<fn_arg, fn_res, script, input, columns, HAS_REQUESTS, rows,
                     categories, labeled_idx, unlabeled_idx, max_probs, being_idx,
                     subcategories, unlabeled_mask, rf_being, being_max_probs,
                     main_sample_idx, being_sample_idx, val, main_ollama, being_ollama,
                     ollama_corrections_main, out_csv, report, report_lines, origin,
                     first_cat, answered, batches, before_validation, n_answers,
                     retrained, disk, disk0, fieldnames, runs>>

\* write_back that also overwrites the other records with a prediction
write_back_all(labels, idx_list, preds) ==
    [i \in DOMAIN labels |->
       IF idx_list = {} THEN labels[i]
       ELSE IF i \in idx_list THEN preds[i] ELSE preds[Min(idx_list)]]

\* for j, idx in enumerate(idx_list): labels[idx] = preds[j]
write_back(labels, idx_list, preds) ==
    [i \in DOMAIN labels |-> IF i \in idx_list THEN preds[i] ELSE labels[i]]

\* predict returns, for every unlabeled record, one of the classes the classifier was
\* fitted on. cluster_tmi.py and cluster_tropes.py only print the confidences.
Predict ==
    /\ pc = "predict"
    /\ \E preds \in [unlabeled_idx -> clf.classes] :
          categories' = write_back(categories, unlabeled_idx, preds)
    /\ max_probs' \in IF script = "rf_classify" THEN [unlabeled_idx -> ConfLevels]
                      ELSE {EmptyMap}
    /\ origin' = [i \in DOMAIN origin |-> IF i \in unlabeled_idx THEN "classifier"
                                           ELSE origin[i]]
    /\ first_cat' = [i \in DOMAIN first_cat |-> IF first_cat[i] = None THEN categories'[i]
                                                 ELSE first_cat[i]]
    /\ Goto(IF script = "rf_classify" THEN "being_rules" ELSE "report")
    /\ UNCHANGED <<fn_arg, fn_res, script, input, columns, HAS_REQUESTS, rows,
                     labeled_idx, unlabeled_idx, clf, being_idx, subcategories,
                     unlabeled_mask, rf_being, being_max_probs, main_sample_idx,
                     being_sample_idx, val, main_ollama, being_ollama,
                     ollama_corrections_main, out_csv, report, report_lines, fits,
                     answered, batches, before_validation, n_answers, retrained, disk,
                     disk0, fieldnames, runs>>

\* "AGREE" if ollama_label == current else f"CORRECTED {current}->{ollama_label}"
validation_status(ollama_label, current) ==
    [status |-> IF ollama_label = current THEN "AGREE" ELSE "CORRECTED",
     old |-> current, new |-> ollama_label]

\* The report; that of rf_classify.py ends with the validation details, one line for
\* every record the validator labelled.
WriteReport ==
    /\ pc = "report"
    /\ report' = "written"
    /\ report_lines' =
          IF script = "rf_classify"
          THEN [main |-> [idx \in DOMAIN main_ollama |->
                            validation_status(main_ollama[idx], categories[idx])],
                being |-> [idx \in DOMAIN being_ollama |->
                             validation_status(being_ollama[idx], subcategories[idx])]]
          ELSE report_lines
    /\ Goto(IF script = "rf_classify" THEN "done" ELSE "write_csv")
    /\ UNCHANGED <<fn_arg, fn_res, script, input, columns, HAS_REQUESTS, rows,
                     categories, labeled_idx, unlabeled_idx, clf, max_probs, being_idx,
                     subcategories, unlabeled_mask, rf_being, being_max_probs,
                     main_sample_idx, being_sample_idx, val, main_ollama, being_ollama,
                     ollama_corrections_main, out_csv, origin, first_cat, fits,
                     answered, batches, before_validation, n_answers, retrained, disk,
                     disk0, fieldnames, runs>>

\* The lookup giving a TropeID the rule category of its last row in the file
id_to_cat_last_row(tid) ==
    LET csv == DictReader(input)
        last == Max({j \in DOMAIN csv : csv[j].id = tid})
    IN IF RuleCategory(script, csv[last]) # None THEN RuleCategory(script, csv[last])
       ELSE categories[Max({k \in DOMAIN rows : rows[k].id = tid})]

\* cluster_tropes.py looks the category up by TropeID, "" when the id is unknown.
id_to_cat(tid) ==
    IF \E k \in DOMAIN rows : rows[k].id = tid
    THEN categories[Max({k \in DOMAIN rows : rows[k].id = tid})]
    ELSE ""

WriteCsv ==
    /\ pc = "write_csv"
    /\ out_csv' = [i \in DOMAIN input |->
                     [row |-> DictReader(input)[i],
                      category |-> IF script = "cluster_tropes"
                                   THEN id_to_cat(DictReader(input)[i].id)
                                   ELSE categories[i],
                      subcategory |-> IF script = "rf_classify" THEN subcategories[i]
                                      ELSE None]]
    /\ Goto(IF script = "rf_classify" THEN "report" ELSE "done")
    /\ UNCHANGED <<fn_arg, fn_res, script, input, columns, HAS_REQUESTS, rows,
                     categories, labeled_idx, unlabeled_idx, clf, max_probs, being_idx,
                     subcategories, unlabeled_mask, rf_being, being_max_probs,
                     main_sample_idx, being_sample_idx, val, main_ollama, being_ollama,
                     ollama_corrections_main, report, report_lines, origin, first_cat,
                     fits, answered, batches, before_validation, n_answers, retrained,
                     disk, disk0, fieldnames, runs>>

\* ------------------------------------------------------------------------
\* rf_classify.py: Being subcategories (Steps 4 and 5)
\* ------------------------------------------------------------------------
\* The rule subcategories; the summary printed after them divides by len(being_idx).
BeingRules ==
    /\ pc = "being_rules"
    /\ being_idx' = {i \in DOMAIN categories : categories[i] = "Being"}
    /\ subcategories' =
          [i \in DOMAIN rows |->
             IF categories[i] = "Being" THEN classify_being(rows[i].name, rows[i].chapter)
             ELSE categories[i]]
    /\ IF being_idx' = {} THEN Abort("being_rules") ELSE Goto("being_vectorize")
    /\ UNCHANGED <<fn_arg, fn_res, script, input, columns, HAS_REQUESTS, rows,
                     categories, labeled_idx, unlabeled_idx, clf, max_probs,
                     unlabeled_mask, rf_being, being_max_probs, main_sample_idx,
                     being_sample_idx, val, main_ollama, being_ollama,
                     ollama_corrections_main, out_csv, report, report_lines, origin,
                     first_cat, fits, answered, batches, before_validation, n_answers,
                     retrained, disk, disk0, fieldnames, runs>>

BeingVectorize ==
    /\ pc = "being_vectorize"
    /\ IF VectorizerRaises([i \in being_idx |-> DocText(script, rows[i])], max_df(script))
       THEN Abort("being_vectorize") /\ UNCHANGED unlabeled_mask
       ELSE /\ unlabeled_mask' = {i \in being_idx : subcategories[i] = None}
            /\ Goto("being_cv")
    /\ UNCHANGED <<fn_arg, fn_res, script, input, columns, HAS_REQUESTS, rows,
                     categories, labeled_idx, unlabeled_idx, clf, max_probs, being_idx,
                     subcategories, rf_being, being_max_probs, main_sample_idx,
                     being_sample_idx, val, main_ollama, being_ollama,
                     ollama_corrections_main, out_csv, report, report_lines, origin,
                     first_cat, fits, answered, batches, before_validation, n_answers,
                     retrained, disk, disk0, fieldnames, runs>>

BeingCrossValidate ==
    /\ pc = "being_cv"
    /\ IF CrossValRaises([i \in being_idx \ unlabeled_mask |-> subcategories[i]])
       THEN Abort("being_cv")
       ELSE Goto("being_fit")
    /\ UNCHANGED <<fn_arg, fn_res, script, input, columns, HAS_REQUESTS, rows,
                     categories, labeled_idx, unlabeled_idx, clf, max_probs, being_idx,
                     subcategories, unlabeled_mask, rf_being, being_max_probs,
                     main_sample_idx, being_sample_idx, val, main_ollama, being_ollama,
                     ollama_corrections_main, out_csv, report, report_lines, origin,
                     first_cat, fits, answered, batches, before_validation, n_answers,
                     retrained, disk, disk0, fieldnames, runs>>

BeingFit ==
    /\ pc = "being_fit"
    /\ rf_being' = [classes |-> Classes([i \in being_idx \ unlabeled_mask |->
                                            subcategories[i]])]
    /\ fits' = fits \cup {<<"being_fit", "rule">>}
    /\ Goto("being_predict")
    /\ UNCHANGED <<fn_arg, fn_res, script, input, columns, HAS_REQUESTS, rows,
                     categories, labeled_idx, unlabeled_idx, clf, max_probs, being_idx,
                     subcategories, unlabeled_mask, being_max_probs, main_sample_idx,
                     being_sample_idx, val, main_ollama, being_ollama,
                     ollama_corrections_main, out_csv, report, report_lines, origin,
                     first_cat, answered, batches, before_validation, n_answers,
                     retrained, disk, disk0, fieldnames, runs>>

BeingPredict ==
    /\ pc = "being_predict"
    /\ \E being_preds \in [unlabeled_mask -> rf_being.classes] :
          subcategories' = write_back(subcategories, unlabeled_mask, being_preds)
    /\ being_max_probs' \in [unlabeled_mask -> ConfLevels]
    /\ Goto("post_corrections")
    /\ UNCHANGED <<fn_arg, fn_res, script, input, columns, HAS_REQUESTS, rows,
                     categories, labeled_idx, unlabeled_idx, clf, max_probs, being_idx,
                     unlabeled_mask, rf_being, main_sample_idx, being_sample_idx, val,
                     main_ollama, being_ollama, ollama_corrections_main, out_csv,
                     report, report_lines, origin, first_cat, fits, answered, batches,
                     before_validation, n_answers, retrained, disk, disk0, fieldnames,
                     runs>>

PostCorrections ==
    /\ pc = "post_corrections"
    /\ subcategories' =
          [i \in DOMAIN subcategories |->
             IF i \in being_idx
             THEN post_correction(rows[i].name, rows[i].chapter, subcategories[i])
             ELSE subcategories[i]]
    /\ Goto("sample_main")
    /\ UNCHANGED <<fn_arg, fn_res, script, input, columns, HAS_REQUESTS, rows,
                     categories, labeled_idx, unlabeled_idx, clf, max_probs, being_idx,
                     unlabeled_mask, rf_being, being_max_probs, main_sample_idx,
                     being_sample_idx, val, main_ollama, being_ollama,
                     ollama_corrections_main, out_csv, report, report_lines, origin,
                     first_cat, fits, answered, batches, before_validation, n_answers,
                     retrained, disk, disk0, fieldnames, runs>>

\* ------------------------------------------------------------------------
\* rf_classify.py: validation (Step 6)
\* ------------------------------------------------------------------------
SampleMain ==
    /\ pc = "sample_main"
    /\ LET all_max_conf == [i \in DOMAIN rows |-> IF i \in labeled_idx THEN ConfOne
                                                  ELSE max_probs[i]]
       IN \E s \in Stratified(MAIN_CATS, 1, DOMAIN rows, categories, all_max_conf, 5, 4) :
             main_sample_idx' \in Shuffles(Take(s, 80))
    /\ before_validation' = [categories |-> categories, subcategories |-> subcategories]
    /\ Goto("validate_main")
    /\ UNCHANGED <<fn_arg, fn_res, script, input, columns, HAS_REQUESTS, rows,
                     categories, labeled_idx, unlabeled_idx, clf, max_probs, being_idx,
                     subcategories, unlabeled_mask, rf_being, being_max_probs,
                     being_sample_idx, val, main_ollama, being_ollama,
                     ollama_corrections_main, out_csv, report, report_lines, origin,
                     first_cat, fits, answered, batches, n_answers, retrained, disk,
                     disk0, fieldnames, runs>>

SampleBeing ==
    /\ pc = "sample_being"
    /\ LET conf == [i \in being_idx |-> IF i \in unlabeled_mask THEN being_max_probs[i]
                                        ELSE ConfOne]
       IN \E s \in Stratified(BEING_SUBCATS, 1, being_idx, subcategories, conf, 4, 3) :
             being_sample_idx' \in Shuffles(Take(s, 40))
    /\ Goto("validate_being")
    /\ UNCHANGED <<fn_arg, fn_res, script, input, columns, HAS_REQUESTS, rows,
                     categories, labeled_idx, unlabeled_idx, clf, max_probs, being_idx,
                     subcategories, unlabeled_mask, rf_being, being_max_probs,
                     main_sample_idx, val, main_ollama, being_ollama,
                     ollama_corrections_main, out_csv, report, report_lines, origin,
                     first_cat, fits, answered, batches, before_validation, n_answers,
                     retrained, disk, disk0, fieldnames, runs>>

\* ollama_validate up to its loop: without requests, or when the service cannot be
\* reached, it returns no labels.
ValidateStart ==
    /\ pc \in {"validate_main", "validate_being"}
    /\ \E reachable \in BOOLEAN :
          IF ~HAS_REQUESTS \/ ~reachable
          THEN /\ IF pc = "validate_main"
                  THEN main_ollama' = EmptyMap /\ UNCHANGED being_ollama
                  ELSE being_ollama' = EmptyMap /\ UNCHANGED main_ollama
               /\ Goto(IF pc = "validate_main" THEN "sample_being" ELSE "corrections")
               /\ UNCHANGED val
          ELSE /\ val' = [call |-> IF pc = "validate_main" THEN "main" ELSE "being",
                          batch_start |-> 0, labels |-> EmptyMap]
               /\ Goto(IF pc = "validate_main" THEN "batch_main" ELSE "batch_being")
               /\ UNCHANGED <<main_ollama, being_ollama>>
    /\ UNCHANGED <<fn_arg, fn_res, script, input, columns, HAS_REQUESTS, rows,
                     categories, labeled_idx, unlabeled_idx, clf, max_probs, being_idx,
                     subcategories, unlabeled_mask, rf_being, being_max_probs,
                     main_sample_idx, being_sample_idx, ollama_corrections_main,
                     out_csv, report, report_lines, origin, first_cat, fits, answered,
                     batches, before_validation, n_answers, retrained, disk, disk0,
                     fieldnames, runs>>

sample_indices == IF val.call = "main" THEN main_sample_idx ELSE being_sample_idx

valid_labels == IF val.call = "main" THEN MAIN_CATS ELSE BEING_SUBCATS

batch_idx ==
    SubSeq(sample_indices, val.batch_start + 1,
           Min({val.batch_start + batch_size, Len(sample_indices)}))

\* The request failed or the response cannot be read as {item number: label}.
failed_response(resp) ==
    resp.kind # "ok" \/ \E e \in DOMAIN resp.entries : ~resp.entries[e].numeric

\* The labels a response gives by item number: those of the permitted list, for item
\* numbers of the batch.
by_position(batch, resp) ==
    IF failed_response(resp) THEN EmptyMap
    ELSE LET ok == {e \in DOMAIN resp.entries :
                      /\ resp.entries[e].key \in DOMAIN batch
                      /\ resp.entries[e].val \in ToSet(valid_labels)}
         IN [i \in {batch[resp.entries[e].key] : e \in ok} |->
               resp.entries[CHOOSE e \in ok : batch[resp.entries[e].key] = i].val]

\* One pass of the batch loop: one request, then the labels are matched to the
\* records of the batch by motif name.
QueryBatch ==
    /\ pc \in {"batch_main", "batch_being"}
    /\ val.batch_start < Len(sample_indices)
    /\ \E resp \in Responses(val.call, Len(batch_idx), MaxAnswers - n_answers) :
          LET motif_names == [k \in DOMAIN batch_idx |-> rows[batch_idx[k]].name]
              ollama_labels == query_ollama(HAS_REQUESTS, motif_names, valid_labels, resp)
              named == {batch_idx[k] : k \in {j \in DOMAIN batch_idx :
                                                 motif_names[j] \in DOMAIN ollama_labels}}
          IN /\ val' = [val EXCEPT
                          !.batch_start = @ + batch_size,
                          !.labels = [i \in named |-> ollama_labels[rows[i].name]] @@ @]
             /\ n_answers' = n_answers + Cardinality(DOMAIN by_position(batch_idx, resp))
             /\ answered' = [answered EXCEPT ![val.call] = by_position(batch_idx, resp) @@ @]
             /\ batches' = Append(batches, [call |-> val.call, start |-> val.batch_start,
                                            failed |-> failed_response(resp)])
    /\ UNCHANGED <<pc, abort_at>>
    /\ UNCHANGED <<fn_arg, fn_res, script, input, columns, HAS_REQUESTS, rows,
                     categories, labeled_idx, unlabeled_idx, clf, max_probs, being_idx,
                     subcategories, unlabeled_mask, rf_being, being_max_probs,
                     main_sample_idx, being_sample_idx, main_ollama, being_ollama,
                     ollama_corrections_main, out_csv, report, report_lines, origin,
                     first_cat, fits, before_validation, retrained, disk, disk0,
                     fieldnames, runs>>

ValidateEnd ==
    /\ pc \in {"batch_main", "batch_being"}
    /\ val.batch_start >= Len(sample_indices)
    /\ IF val.call = "main"
       THEN main_ollama' = val.labels /\ UNCHANGED being_ollama
       ELSE being_ollama' = val.labels /\ UNCHANGED main_ollama
    /\ val' = NoValidation
    /\ Goto(IF val.call = "main" THEN "sample_being" ELSE "corrections")
    /\ UNCHANGED <<fn_arg, fn_res, script, input, columns, HAS_REQUESTS, rows,
                     categories, labeled_idx, unlabeled_idx, clf, max_probs, being_idx,
                     subcategories, unlabeled_mask, rf_being, being_max_probs,
                     main_sample_idx, being_sample_idx, ollama_corrections_main,
                     out_csv, report, report_lines, origin, first_cat, fits, answered,
                     batches, before_validation, n_answers, retrained, disk, disk0,
                     fieldnames, runs>>

\* ------------------------------------------------------------------------
\* rf_classify.py: corrections, retrain, output (Steps 7 to 9)
\* ------------------------------------------------------------------------
ApplyCorrections ==
    /\ pc = "corrections"
    /\ LET changed == {i \in DOMAIN main_ollama : main_ollama[i] # categories[i]}
           cat1 == [i \in DOMAIN categories |-> IF i \in changed THEN main_ollama[i]
                                                 ELSE categories[i]]
           sub1 == [i \in DOMAIN subcategories |->
                      IF i \notin changed THEN subcategories[i]
                      ELSE IF main_ollama[i] # "Being" THEN main_ollama[i]
                      ELSE classify_being(rows[i].name, rows[i].chapter)]
           changed_being == {i \in DOMAIN being_ollama :
                               being_ollama[i] # sub1[i] /\ cat1[i] = "Being"}
       IN /\ categories' = cat1
          /\ subcategories' = [i \in DOMAIN sub1 |-> IF i \in changed_being
                                                     THEN being_ollama[i] ELSE sub1[i]]
          /\ ollama_corrections_main' = Cardinality(changed)
          /\ origin' = [i \in DOMAIN origin |-> IF i \in changed THEN "validator"
                                                 ELSE origin[i]]
    /\ Goto("retrain")
    /\ UNCHANGED <<fn_arg, fn_res, script, input, columns, HAS_REQUESTS, rows,
                     labeled_idx, unlabeled_idx, clf, max_probs, being_idx,
                     unlabeled_mask, rf_being, being_max_probs, main_sample_idx,
                     being_sample_idx, val, main_ollama, being_ollama, out_csv, report,
                     report_lines, first_cat, fits, answered, batches,
                     before_validation, n_answers, retrained, disk, disk0, fieldnames,
                     runs>>

\* still_unlabeled without the validator-labelled records taken out
still_unlabeled_all(unlabeled, labelled) == unlabeled

\* [i for i in unlabeled_idx if i not in main_ollama]
still_unlabeled_of(unlabeled, labelled) == unlabeled \ DOMAIN labelled

Retrain ==
    /\ pc = "retrain"
    /\ IF ollama_corrections_main > 0
       THEN LET labeled_idx2 == labeled_of(categories)
                still_unlabeled == still_unlabeled_of(unlabeled_idx, main_ollama)
            IN /\ clf' = [classes |-> Classes([i \in labeled_idx2 |-> categories[i]])]
               /\ fits' = fits \cup {<<"retrain", origin[i]>> : i \in labeled_idx2}
               /\ \E preds2 \in [still_unlabeled -> clf'.classes] :
                     /\ categories' = write_back(categories, still_unlabeled, preds2)
                     /\ subcategories' =
                           [i \in DOMAIN subcategories |->
                              IF i \in still_unlabeled /\ preds2[i] # "Being"
                              THEN preds2[i] ELSE subcategories[i]]
               /\ retrained' = TRUE
       ELSE UNCHANGED <<clf, fits, categories, subcategories, retrained>>
    /\ Goto("final_print")
    /\ UNCHANGED <<fn_arg, fn_res, script, input, columns, HAS_REQUESTS, rows,
                     labeled_idx, unlabeled_idx, max_probs, being_idx, unlabeled_mask,
                     rf_being, being_max_probs, main_sample_idx, being_sample_idx, val,
                     main_ollama, being_ollama, ollama_corrections_main, out_csv,
                     report, report_lines, origin, first_cat, answered, batches,
                     before_validation, n_answers, disk, disk0, fieldnames, runs>>

\* The distribution prints format every label as a string; None cannot be formatted.
FinalPrint ==
    /\ pc = "final_print"
    /\ IF \E i \in DOMAIN rows : categories[i] = None \/ subcategories[i] = None
       THEN Abort("final_print")
       ELSE Goto("write_csv")
    /\ UNCHANGED <<fn_arg, fn_res, script, input, columns, HAS_REQUESTS, rows,
                     categories, labeled_idx, unlabeled_idx, clf, max_probs, being_idx,
                     subcategories, unlabeled_mask, rf_being, being_max_probs,
                     main_sample_idx, being_sample_idx, val, main_ollama, being_ollama,
                     ollama_corrections_main, out_csv, report, report_lines, origin,
                     first_cat, fits, answered, batches, before_validation, n_answers,
                     retrained, disk, disk0, fieldnames, runs>>

Next ==
    \/ Load
    \/ ApplyRules
    \/ Vectorize
    \/ CrossValidate
    \/ Fit
    \/ Predict
    \/ WriteReport
    \/ WriteCsv
    \/ BeingRules
    \/ BeingVectorize
    \/ BeingCrossValidate
    \/ BeingFit
    \/ BeingPredict
    \/ PostCorrections
    \/ SampleMain
    \/ SampleBeing
    \/ ValidateStart
    \/ QueryBatch
    \/ ValidateEnd
    \/ ApplyCorrections
    \/ Retrain
    \/ FinalPrint

Spec == Init /\ [][Next]_vars

\* ------------------------------------------------------------------------
\* The rule functions applied to every bounded input
\* ------------------------------------------------------------------------
TmiTexts == SeqsUpTo(TmiVocab, MaxWords)

TropeNames == SeqsUpTo(TropeVocab, MaxWords)

TropeDescs == SeqsUpTo(TropeVocab, MaxDescWords)

FnArgs ==
    [kind : {"tmi"}, name : TmiTexts, desc : {<<>>}]
      \cup [kind : {"trope"}, name : TropeNames, desc : TropeDescs]
      \cup [kind : {"being"}, name : TmiTexts, desc : {<<>>},
            chapter : {"Animals", "Society", "Marvels", "Monsters"}]

InitFn ==
    /\ fn_arg \in FnArgs
    /\ fn_res = NoResult
    /\ script = "none"
    /\ input = <<>>
    /\ columns = {}
    /\ HAS_REQUESTS = FALSE
    /\ pc = "idle"
    /\ Fresh
    /\ disk = NoDisk
    /\ disk0 = NoDisk
    /\ runs = 0

ApplyClassifyRule ==
    /\ fn_arg.kind = "tmi"
    /\ fn_res = NoResult
    /\ fn_res' = [op |-> "classify_rule", val |-> classify_rule(fn_arg.name)]
    /\ UNCHANGED <<fn_arg, script, input, columns, HAS_REQUESTS, pc, abort_at, rows,
                     categories, labeled_idx, unlabeled_idx, clf, max_probs, being_idx,
                     subcategories, unlabeled_mask, rf_being, being_max_probs,
                     main_sample_idx, being_sample_idx, val, main_ollama, being_ollama,
                     ollama_corrections_main, out_csv, report, report_lines, origin,
                     first_cat, fits, answered, batches, before_validation, n_answers,
                     retrained, disk, disk0, fieldnames, runs>>

ApplyTropesClassifyRule ==
    /\ fn_arg.kind = "trope"
    /\ fn_res = NoResult
    /\ fn_res' = [op |-> "tropes_classify_rule",
                  val |-> tropes_classify_rule(fn_arg.name, fn_arg.desc)]
    /\ UNCHANGED <<fn_arg, script, input, columns, HAS_REQUESTS, pc, abort_at, rows,
                     categories, labeled_idx, unlabeled_idx, clf, max_probs, being_idx,
                     subcategories, unlabeled_mask, rf_being, being_max_probs,
                     main_sample_idx, being_sample_idx, val, main_ollama, being_ollama,
                     ollama_corrections_main, out_csv, report, report_lines, origin,
                     first_cat, fits, answered, batches, before_validation, n_answers,
                     retrained, disk, disk0, fieldnames, runs>>

ApplyClassifyMain ==
    /\ fn_arg.kind = "tmi"
    /\ fn_res = NoResult
    /\ fn_res' = [op |-> "classify_main", val |-> classify_main(fn_arg.name)]
    /\ UNCHANGED <<fn_arg, script, input, columns, HAS_REQUESTS, pc, abort_at, rows,
                     categories, labeled_idx, unlabeled_idx, clf, max_probs, being_idx,
                     subcategories, unlabeled_mask, rf_being, being_max_probs,
                     main_sample_idx, being_sample_idx, val, main_ollama, being_ollama,
                     ollama_corrections_main, out_csv, report, report_lines, origin,
                     first_cat, fits, answered, batches, before_validation, n_answers,
                     retrained, disk, disk0, fieldnames, runs>>

\* is_animal of rf_classify.py; the value is the bool the function returns, as printed
ApplyIsAnimal ==
    /\ fn_arg.kind = "being"
    /\ fn_res = NoResult
    /\ fn_res' = [op |-> "is_animal",
                  val |-> IF is_animal(fn_arg.name, fn_arg.chapter) THEN "True" ELSE "False"]
    /\ UNCHANGED <<fn_arg, script, input, columns, HAS_REQUESTS, pc, abort_at, rows,
                     categories, labeled_idx, unlabeled_idx, clf, max_probs, being_idx,
                     subcategories, unlabeled_mask, rf_being, being_max_probs,
                     main_sample_idx, being_sample_idx, val, main_ollama, being_ollama,
                     ollama_corrections_main, out_csv, report, report_lines, origin,
                     first_cat, fits, answered, batches, before_validation, n_answers,
                     retrained, disk, disk0, fieldnames, runs>>

\* is_animal of split_being.py
ApplySbIsAnimal ==
    /\ fn_arg.kind = "being"
    /\ fn_res = NoResult
    /\ fn_res' = [op |-> "sb_is_animal",
                  val |-> IF sb_is_animal(fn_arg.name, fn_arg.chapter) THEN "True" ELSE "False"]
    /\ UNCHANGED <<fn_arg, script, input, columns, HAS_REQUESTS, pc, abort_at, rows,
                     categories, labeled_idx, unlabeled_idx, clf, max_probs, being_idx,
                     subcategories, unlabeled_mask, rf_being, being_max_probs,
                     main_sample_idx, being_sample_idx, val, main_ollama, being_ollama,
                     ollama_corrections_main, out_csv, report, report_lines, origin,
                     first_cat, fits, answered, batches, before_validation, n_answers,
                     retrained, disk, disk0, fieldnames, runs>>

ApplyClassifyBeing ==
    /\ fn_arg.kind = "being"
    /\ fn_res = NoResult
    /\ fn_res' = [op |-> "classify_being", val |-> classify_being(fn_arg.name, fn_arg.chapter)]
    /\ UNCHANGED <<fn_arg, script, input, columns, HAS_REQUESTS, pc, abort_at, rows,
                     categories, labeled_idx, unlabeled_idx, clf, max_probs, being_idx,
                     subcategories, unlabeled_mask, rf_being, being_max_probs,
                     main_sample_idx, being_sample_idx, val, main_ollama, being_ollama,
                     ollama_corrections_main, out_csv, report, report_lines, origin,
                     first_cat, fits, answered, batches, before_validation, n_answers,
                     retrained, disk, disk0, fieldnames, runs>>

ApplySbClassifyBeing ==
    /\ fn_arg.kind = "being"
    /\ fn_res = NoResult
    /\ fn_res' = [op |-> "sb_classify_being",
                  val |-> sb_classify_being(fn_arg.name, fn_arg.chapter)]
    /\ UNCHANGED <<fn_arg, script, input, columns, HAS_REQUESTS, pc, abort_at, rows,
                     categories, labeled_idx, unlabeled_idx, clf, max_probs, being_idx,
                     subcategories, unlabeled_mask, rf_being, being_max_probs,
                     main_sample_idx, being_sample_idx, val, main_ollama, being_ollama,
                     ollama_corrections_main, out_csv, report, report_lines, origin,
                     first_cat, fits, answered, batches, before_validation, n_answers,
                     retrained, disk, disk0, fieldnames, runs>>

NextFn ==
    \/ ApplyClassifyRule
    \/ ApplyTropesClassifyRule
    \/ ApplyClassifyMain
    \/ ApplyIsAnimal
    \/ ApplySbIsAnimal
    \/ ApplyClassifyBeing
    \/ ApplySbClassifyBeing

SpecFn == InitFn /\ [][NextFn]_vars


\* ------------------------------------------------------------------------
\* split_being.py and rename_ogre.py: the scripts that work on tmi_clustered.csv
\* ------------------------------------------------------------------------
PostScripts == {"split_being", "rename_ogre"}

\* Scripts an operator starts one after the other on the same data directory.
MaxRuns == 2

TmiFields == <<"id", "motif_name", "chapter_name", "level">>

CRow(name, chapter, category) ==
    [row |-> Motif(name, chapter), category |-> category, subcategory |-> None]

File(fields, rs) == [exists |-> TRUE, fieldnames |-> fields, rows |-> rs]

Text(sections) == [exists |-> TRUE, text |-> sections]

\* tmi_clustered.csv as cluster_tmi.py writes it: nine Being motifs and a Place
ClusteredBase == File(TmiFields \o <<"category">>, <<
    CRow(<<"king">>, "Society", "Being"), CRow(<<"King">>, "Marvels", "Being"),
    CRow(<<"man">>, "Society", "Being"), CRow(<<"man">>, "Marvels", "Being"),
    CRow(<<"king">>, "Myths", "Being"), CRow(<<"witch">>, "Marvels", "Being"),
    CRow(<<"witch">>, "Myths", "Being"), CRow(<<"bread">>, "Marvels", "Being"),
    CRow(<<"Ogre", "king">>, "Monsters", "Being"), CRow(<<"castle">>, "Marvels", "Place")>>)

\* a file of two motifs, a file without a Being motif, and tmi.csv under the name
ClusteredSmall == File(TmiFields \o <<"category">>, <<
    CRow(<<"ogres">>, "Monsters", "Being"), CRow(<<"fox">>, "Animals", "Being")>>)

ClusteredNoBeing == File(TmiFields \o <<"category">>, <<
    CRow(<<"castle">>, "Marvels", "Place")>>)

ClusteredNoCategory == File(TmiFields, <<CRow(<<"king">>, "Society", None)>>)

\* cluster_report.txt as cluster_tmi.py writes it: the sections of the file
ReportBase == Text(<<"CLUSTER SUMMARY", "CATEGORY DETAILS">>)

Disks ==
    [clustered : {ClusteredBase, ClusteredSmall, ClusteredNoBeing, ClusteredNoCategory,
                  NoFile},
     tmp : {NoFile},
     report : {ReportBase, NoText},
     images : {{}}]

InitPost ==
    /\ fn_arg = NoArg
    /\ fn_res = NoResult
    /\ script = "none"
    /\ input = <<>>
    /\ columns = {}
    /\ HAS_REQUESTS = FALSE
    /\ pc = "idle"
    /\ Fresh
    /\ disk \in Disks
    /\ disk0 = disk
    /\ runs = 0

\* The operator starts one of the two scripts; every variable of the script is new.
Start ==
    /\ pc \in {"idle", "done", "aborted"}
    /\ runs < MaxRuns
    /\ script' \in PostScripts
    /\ runs' = runs + 1
    /\ disk0' = disk
    /\ pc' = "load"
    /\ abort_at' = None
    /\ rows' = <<>>
    /\ being_idx' = {}
    /\ subcategories' = <<>>
    /\ unlabeled_mask' = {}
    /\ labeled_idx' = {}
    /\ clf' = [classes |-> {}]
    /\ fieldnames' = <<>>
    /\ UNCHANGED <<fn_arg, fn_res, input, columns, HAS_REQUESTS, categories,
                     unlabeled_idx, max_probs, rf_being, being_max_probs,
                     main_sample_idx, being_sample_idx, val, main_ollama, being_ollama,
                     ollama_corrections_main, out_csv, report, report_lines, origin,
                     first_cat, fits, answered, batches, before_validation, n_answers,
                     retrained, disk>>

\* csv.DictReader over tmi_clustered.csv opened with errors="replace"
ReadClustered(file) ==
    [i \in DOMAIN file.rows |->
       [row |-> DictReader(<<file.rows[i].row>>)[1],
        category |-> decode(file.rows[i].category),
        subcategory |-> decode(file.rows[i].subcategory)]]

InFields(col, fields) == \E k \in DOMAIN fields : fields[k] = col

\* split_being.py Step 1; r["category"] raises KeyError when the column is missing.
SbLoad ==
    /\ pc = "load"
    /\ script = "split_being"
    /\ IF ~disk.clustered.exists
       THEN Abort("load") /\ UNCHANGED <<rows, fieldnames, being_idx>>
       ELSE /\ rows' = ReadClustered(disk.clustered)
            /\ fieldnames' = disk.clustered.fieldnames
            /\ IF ~InFields("category", disk.clustered.fieldnames) /\ Len(rows') > 0
               THEN Abort("load") /\ UNCHANGED being_idx
               ELSE /\ being_idx' = {i \in DOMAIN rows' : rows'[i].category = "Being"}
                    /\ Goto("rules")
    /\ UNCHANGED <<fn_arg, fn_res, script, input, columns, HAS_REQUESTS, categories,
                     labeled_idx, unlabeled_idx, clf, max_probs, subcategories,
                     unlabeled_mask, rf_being, being_max_probs, main_sample_idx,
                     being_sample_idx, val, main_ollama, being_ollama,
                     ollama_corrections_main, out_csv, report, report_lines, origin,
                     first_cat, fits, answered, batches, before_validation, n_answers,
                     retrained, disk, disk0, runs>>

\* Step 2; the summary it prints divides by len(being_idx).
SbRules ==
    /\ pc = "rules"
    /\ script = "split_being"
    /\ subcategories' =
          [i \in DOMAIN rows |->
             IF i \in being_idx
             THEN sb_classify_being(rows[i].row.name, rows[i].row.chapter)
             ELSE rows[i].category]
    /\ IF being_idx = {} THEN Abort("rules") ELSE Goto("vectorize")
    /\ UNCHANGED <<fn_arg, fn_res, script, input, columns, HAS_REQUESTS, rows,
                     categories, labeled_idx, unlabeled_idx, clf, max_probs, being_idx,
                     unlabeled_mask, rf_being, being_max_probs, main_sample_idx,
                     being_sample_idx, val, main_ollama, being_ollama,
                     ollama_corrections_main, out_csv, report, report_lines, origin,
                     first_cat, fits, answered, batches, before_validation, n_answers,
                     retrained, disk, disk0, fieldnames, runs>>

\* Step 3: the vectorizer sees the Being motifs only.
SbVectorize ==
    /\ pc = "vectorize"
    /\ script = "split_being"
    /\ IF VectorizerRaises([i \in being_idx |-> DocText(script, rows[i].row)], max_df(script))
       THEN Abort("vectorize") /\ UNCHANGED <<labeled_idx, unlabeled_mask>>
       ELSE /\ labeled_idx' = {i \in being_idx : subcategories[i] # None}
            /\ unlabeled_mask' = {i \in being_idx : subcategories[i] = None}
            /\ Goto("cv")
    /\ UNCHANGED <<fn_arg, fn_res, script, input, columns, HAS_REQUESTS, rows,
                     categories, unlabeled_idx, clf, max_probs, being_idx,
                     subcategories, rf_being, being_max_probs, main_sample_idx,
                     being_sample_idx, val, main_ollama, being_ollama,
                     ollama_corrections_main, out_csv, report, report_lines, origin,
                     first_cat, fits, answered, batches, before_validation, n_answers,
                     retrained, disk, disk0, fieldnames, runs>>

SbCrossValidate ==
    /\ pc = "cv"
    /\ script = "split_being"
    /\ LET y == [i \in labeled_idx |-> subcategories[i]]
       IN IF CrossValRaises(y) THEN Abort("cv")
          ELSE IF Cardinality(Classes(y)) < 2 THEN Abort("cv") \/ Goto("fit")
          ELSE Goto("fit")
    /\ UNCHANGED <<fn_arg, fn_res, script, input, columns, HAS_REQUESTS, rows,
                     categories, labeled_idx, unlabeled_idx, clf, max_probs, being_idx,
                     subcategories, unlabeled_mask, rf_being, being_max_probs,
                     main_sample_idx, being_sample_idx, val, main_ollama, being_ollama,
                     ollama_corrections_main, out_csv, report, report_lines, origin,
                     first_cat, fits, answered, batches, before_validation, n_answers,
                     retrained, disk, disk0, fieldnames, runs>>

SbFit ==
    /\ pc = "fit"
    /\ script = "split_being"
    /\ LET y == [i \in labeled_idx |-> subcategories[i]]
       IN IF Cardinality(Classes(y)) < 2
          THEN Abort("fit") /\ UNCHANGED clf
          ELSE clf' = [classes |-> Classes(y)] /\ Goto("predict")
    /\ UNCHANGED <<fn_arg, fn_res, script, input, columns, HAS_REQUESTS, rows,
                     categories, labeled_idx, unlabeled_idx, max_probs, being_idx,
                     subcategories, unlabeled_mask, rf_being, being_max_probs,
                     main_sample_idx, being_sample_idx, val, main_ollama, being_ollama,
                     ollama_corrections_main, out_csv, report, report_lines, origin,
                     first_cat, fits, answered, batches, before_validation, n_answers,
                     retrained, disk, disk0, fieldnames, runs>>

SbPredict ==
    /\ pc = "predict"
    /\ script = "split_being"
    /\ \E preds \in [unlabeled_mask -> clf.classes] :
          subcategories' = write_back(subcategories, unlabeled_mask, preds)
    /\ Goto("corrections")
    /\ UNCHANGED <<fn_arg, fn_res, script, input, columns, HAS_REQUESTS, rows,
                     categories, labeled_idx, unlabeled_idx, clf, max_probs, being_idx,
                     unlabeled_mask, rf_being, being_max_probs, main_sample_idx,
                     being_sample_idx, val, main_ollama, being_ollama,
                     ollama_corrections_main, out_csv, report, report_lines, origin,
                     first_cat, fits, answered, batches, before_validation, n_answers,
                     retrained, disk, disk0, fieldnames, runs>>

\* Step 4
SbCorrect ==
    /\ pc = "corrections"
    /\ script = "split_being"
    /\ subcategories' =
          [i \in DOMAIN rows |->
             IF i \in being_idx
             THEN sb_post_correction(rows[i].row.name, rows[i].row.chapter, subcategories[i])
             ELSE subcategories[i]]
    /\ Goto("report")
    /\ UNCHANGED <<fn_arg, fn_res, script, input, columns, HAS_REQUESTS, rows,
                     categories, labeled_idx, unlabeled_idx, clf, max_probs, being_idx,
                     unlabeled_mask, rf_being, being_max_probs, main_sample_idx,
                     being_sample_idx, val, main_ollama, being_ollama,
                     ollama_corrections_main, out_csv, report, report_lines, origin,
                     first_cat, fits, answered, batches, before_validation, n_answers,
                     retrained, disk, disk0, fieldnames, runs>>

BeingMarker == "BEING SUBCATEGORY BREAKDOWN"

\* The report text taken whole, without the cut at the marker
BeforeMarker_uncut(text) == text

\* old_content[:old_content.index(marker)]
BeforeMarker(text) ==
    IF \E k \in DOMAIN text : text[k] = BeingMarker
    THEN SubSeq(text, 1, Min({k \in DOMAIN text : text[k] = BeingMarker}) - 1)
    ELSE text

\* Step 5: cluster_report.txt is read, cut at the marker and written with the new section.
SbReport ==
    /\ pc = "report"
    /\ script = "split_being"
    /\ IF ~disk.report.exists
       THEN Abort("report") /\ UNCHANGED disk
       ELSE /\ disk' = [disk EXCEPT !.report =
                          Text(BeforeMarker(disk.report.text) \o <<BeingMarker>>)]
            /\ Goto("write_csv")
    /\ UNCHANGED <<fn_arg, fn_res, script, input, columns, HAS_REQUESTS, rows,
                     categories, labeled_idx, unlabeled_idx, clf, max_probs, being_idx,
                     subcategories, unlabeled_mask, rf_being, being_max_probs,
                     main_sample_idx, being_sample_idx, val, main_ollama, being_ollama,
                     ollama_corrections_main, out_csv, report, report_lines, origin,
                     first_cat, fits, answered, batches, before_validation, n_answers,
                     retrained, disk0, fieldnames, runs>>

\* Step 6: tmi_clustered.csv is opened for writing under the name it was read from.
SbWriteCsv ==
    /\ pc = "write_csv"
    /\ script = "split_being"
    /\ fieldnames' = IF InFields("subcategory", fieldnames) THEN fieldnames
                     ELSE fieldnames \o <<"subcategory">>
    /\ rows' = [i \in DOMAIN rows |-> [rows[i] EXCEPT !.subcategory = subcategories[i]]]
    /\ disk' = [disk EXCEPT !.clustered = File(fieldnames', rows')]
    /\ Goto("visualize")
    /\ UNCHANGED <<fn_arg, fn_res, script, input, columns, HAS_REQUESTS, categories,
                     labeled_idx, unlabeled_idx, clf, max_probs, being_idx,
                     subcategories, unlabeled_mask, rf_being, being_max_probs,
                     main_sample_idx, being_sample_idx, val, main_ollama, being_ollama,
                     ollama_corrections_main, out_csv, report, report_lines, origin,
                     first_cat, fits, answered, batches, before_validation, n_answers,
                     retrained, disk0, runs>>

SbImages == {"cluster_scatter_all.png", "cluster_scatter_grid.png", "being_scatter.png"}

\* Step 7: the bar chart, then the vectorizer over all motifs and the UMAP projection,
\* which on a handful of motifs raises or not by the version of the library.
SbVisualize ==
    /\ pc = "visualize"
    /\ script = "split_being"
    /\ IF VectorizerRaises([i \in DOMAIN rows |-> DocText(script, rows[i].row)],
                           max_df(script))
       THEN /\ disk' = [disk EXCEPT !.images = @ \cup {"being_subcategories.png"}]
            /\ Abort("visualize")
       ELSE \/ /\ disk' = [disk EXCEPT !.images = @ \cup {"being_subcategories.png"}]
               /\ Abort("visualize")
            \/ /\ disk' = [disk EXCEPT !.images =
                             @ \cup {"being_subcategories.png"} \cup SbImages]
               /\ Goto("done")
    /\ UNCHANGED <<fn_arg, fn_res, script, input, columns, HAS_REQUESTS, rows,
                     categories, labeled_idx, unlabeled_idx, clf, max_probs, being_idx,
                     subcategories, unlabeled_mask, rf_being, being_max_probs,
                     main_sample_idx, being_sample_idx, val, main_ollama, being_ollama,
                     ollama_corrections_main, out_csv, report, report_lines, origin,
                     first_cat, fits, answered, batches, before_validation, n_answers,
                     retrained, disk0, fieldnames, runs>>

\* rename_ogre.py: _repl over the spellings the pattern matches ("ogress" is not one)
replace_ogre_word(w) ==
    CASE w = "ogres" -> "monsters" [] w = "Ogres" -> "Monsters" [] w = "OGRES" -> "MONSTERS"
      [] w = "ogre" -> "monster" [] w = "Ogre" -> "Monster" [] w = "OGRE" -> "MONSTER"
      [] w = "OGre" -> "Monster" [] w = "oGre" -> "monster"
      [] w = "OGres" -> "Monsters" [] w = "oGres" -> "monsters"
      [] OTHER -> w

replace_ogre(text) == [k \in DOMAIN text |-> replace_ogre_word(text[k])]

\* for key in row: row[key] = replace_ogre(old)
ReplaceRow(r) ==
    [row |-> [id |-> replace_ogre_word(r.row.id), name |-> replace_ogre(r.row.name),
              desc |-> replace_ogre(r.row.desc), chapter |-> replace_ogre_word(r.row.chapter)],
     category |-> replace_ogre_word(r.category),
     subcategory |-> replace_ogre_word(r.subcategory)]

\* The loop of rename_ogre.py: every row is read, replaced and written to the
\* temporary file.
OgreRewrite ==
    /\ pc = "load"
    /\ script = "rename_ogre"
    /\ IF ~disk.clustered.exists
       THEN Abort("load") /\ UNCHANGED disk
       ELSE /\ disk' = [disk EXCEPT !.tmp =
                          File(disk.clustered.fieldnames,
                               [i \in DOMAIN disk.clustered.rows |->
                                  ReplaceRow(ReadClustered(disk.clustered)[i])])]
            /\ Goto("replace")
    /\ UNCHANGED <<fn_arg, fn_res, script, input, columns, HAS_REQUESTS, rows,
                     categories, labeled_idx, unlabeled_idx, clf, max_probs, being_idx,
                     subcategories, unlabeled_mask, rf_being, being_max_probs,
                     main_sample_idx, being_sample_idx, val, main_ollama, being_ollama,
                     ollama_corrections_main, out_csv, report, report_lines, origin,
                     first_cat, fits, answered, batches, before_validation, n_answers,
                     retrained, disk0, fieldnames, runs>>

\* os.replace(tmp, src)
OgreReplace ==
    /\ pc = "replace"
    /\ script = "rename_ogre"
    /\ disk' = [disk EXCEPT !.clustered = disk.tmp, !.tmp = NoFile]
    /\ Goto("done")
    /\ UNCHANGED <<fn_arg, fn_res, script, input, columns, HAS_REQUESTS, rows,
                     categories, labeled_idx, unlabeled_idx, clf, max_probs, being_idx,
                     subcategories, unlabeled_mask, rf_being, being_max_probs,
                     main_sample_idx, being_sample_idx, val, main_ollama, being_ollama,
                     ollama_corrections_main, out_csv, report, report_lines, origin,
                     first_cat, fits, answered, batches, before_validation, n_answers,
                     retrained, disk0, fieldnames, runs>>

NextPost ==
    \/ Start
    \/ SbLoad
    \/ SbRules
    \/ SbVectorize
    \/ SbCrossValidate
    \/ SbFit
    \/ SbPredict
    \/ SbCorrect
    \/ SbReport
    \/ SbWriteCsv
    \/ SbVisualize
    \/ OgreRewrite
    \/ OgreReplace

SpecPost == InitPost /\ [][NextPost]_vars
\* ------------------------------------------------------------------------
\* Properties
\* ------------------------------------------------------------------------
Matching(rules, toks) == {k \in 1..Len(rules) : Search(rules[k], toks)}

\* Tables that agree with rules on the first k rules and differ after them.
TablesAgreeingTo(rules, k) ==
    LET pre == SubSeq(rules, 1, k)
        post == SubSeq(rules, k + 1, Len(rules))
    IN {pre, pre \o Reverse(post), pre \o SubSeq(post, 2, Len(post))}

FirstRuleWins(rules, toks, res) ==
    LET m == Matching(rules, toks)
    IN IF m = {} THEN res = None
       ELSE /\ res = rules[Min(m)].cat
            /\ \A t \in TablesAgreeingTo(rules, Min(m)) : FirstMatch(t, 1, toks) = res

\* C1: classify_rule (cluster_tmi.py, cluster_tropes.py) returns the category of the
\* first rule, in table order, whose pattern is found in the (lowercased) text, None
\* when no rule matches, and the result for a text first matched by rule k is the same
\* under every table that lists the same first k rules.
C1_FirstRuleWins ==
    /\ fn_res.op = "classify_rule" => FirstRuleWins(RULES, Lower(fn_arg.name), fn_res.val)
    /\ fn_res.op = "tropes_classify_rule" =>
          FirstRuleWins(TROPES_RULES, fn_arg.name \o fn_arg.desc, fn_res.val)

\* A text that matches an earlier rule and a later rule of another category was classified.
C1_Witness ==
    /\ fn_res.op = "classify_rule"
    /\ \E j, k \in Matching(RULES, Lower(fn_arg.name)) :
          j < k /\ RULES[j].cat # RULES[k].cat /\ fn_res.val = RULES[j].cat
    /\ \E i \in DOMAIN fn_arg.name : fn_arg.name[i] # LowerWord(fn_arg.name[i])

\* Steps up to and including the fallback prediction, and the steps of rf_classify.py
\* from the corrections on.
BeforePredicted == {"load", "rules", "vectorize", "cv", "fit", "predict"}

FromCorrections == {"retrain", "final_print", "write_csv", "report", "done"}

\* The fallback stage has finished (the run may have ended later, normally or not).
Predicted ==
    /\ script \in Scripts
    /\ IF pc = "aborted" THEN abort_at \notin BeforePredicted ELSE pc \notin BeforePredicted

\* The run is past Step 7: corrections and retrain are done.
Corrected ==
    /\ script = "rf_classify"
    /\ pc \in (FromCorrections \ {"retrain"}) \/ (pc = "aborted" /\ abort_at = "final_print")

\* The labels ollama_validate has collected for a call, during and after the call.
LabelsOf(call) ==
    IF val.call = call THEN val.labels
    ELSE IF call = "main" THEN main_ollama ELSE being_ollama

\* The records of a queried batch.
BatchOf(b) ==
    LET sample == IF b.call = "main" THEN main_sample_idx ELSE being_sample_idx
    IN {sample[k] : k \in {j \in DOMAIN sample : b.start < j /\ j <= b.start + batch_size}}

\* C2: once the fallback stage has finished with a non-empty rule-labeled training
\* set, no record has category None, and until a later step of rf_classify.py rewrites
\* categories every record the rules left unlabeled holds a prediction of the fitted
\* classifier.
C2_Coverage ==
    (Predicted /\ labeled_idx # {}) =>
        /\ \A i \in DOMAIN rows : categories[i] # None
        /\ pc \notin FromCorrections /\ pc # "aborted" =>
              \A i \in unlabeled_idx :
                 origin[i] = "classifier" /\ categories[i] \in clf.classes

\* A run ended with records the rules had left unlabeled.
C2_Witness ==
    /\ pc = "done"
    /\ unlabeled_idx # {}
    /\ labeled_idx # {}
    /\ \A i \in unlabeled_idx : RuleCategory(script, rows[i]) = None

\* C3 as stated: a record that has received a category keeps it for the rest of the
\* run.
C3_AssignedOnce ==
    \A i \in DOMAIN first_cat : first_cat[i] # None => categories[i] = first_cat[i]

\* C3, amended: a category a record has received changes only in Step 7 of
\* rf_classify.py: by the validator label collected for that record, or by the retrain
\* re-prediction of a record the rules left unlabeled and the validator did not label.
C3_ChangedOnlyInStep7 ==
    [][\A i \in DOMAIN categories :
          (categories[i] # None /\ categories'[i] # categories[i]) =>
             /\ script = "rf_classify"
             /\ \/ /\ pc = "corrections"
                   /\ i \in DOMAIN main_ollama
                   /\ categories'[i] = main_ollama[i]
                \/ /\ pc = "retrain"
                   /\ ollama_corrections_main > 0
                   /\ i \in unlabeled_idx \ DOMAIN main_ollama
                   /\ categories'[i] \in clf'.classes]_vars

\* A run in which a validator correction changed one record's category and the retrain
\* re-predicted another record differently.
C3_Witness ==
    /\ pc = "done"
    /\ \E i \in DOMAIN main_ollama : categories[i] # first_cat[i]
    /\ \E i \in unlabeled_idx \ DOMAIN main_ollama : categories[i] # first_cat[i]

\* C4 as stated: every fit of a run uses as training labels only categories produced
\* by the rule engine.
C4_TrainingLabelsFromRules == \A f \in fits : f[2] = "rule"

\* C5: predictions are written only to records the rules left without a label: the
\* fallback prediction and the retrain re-prediction leave the category of every
\* rule-matched record as it was, and the Being prediction leaves every
\* rule-subcategorized record's subcategory as it was.
C5_PredictionsOnlyToUnlabeled ==
    [][/\ pc \in {"predict", "retrain"} =>
             \A i \in labeled_idx : categories'[i] = categories[i]
       /\ pc = "being_predict" =>
             \A i \in being_idx \ unlabeled_mask : subcategories'[i] = subcategories[i]]_vars

\* The retrain re-predicted an unlabeled record differently in a run with rule-matched
\* records.
C5_Witness ==
    /\ retrained
    /\ labeled_idx # {}
    /\ \E i \in unlabeled_idx : categories[i] # first_cat[i] /\ origin[i] = "classifier"

\* C6 as stated: when the main corrections have been applied, a record's category
\* differs from the one it had before validation only if the response gave a permitted
\* label under that record's item number; every other record of the batch retains its
\* prior label.
C6_OnlyAnsweredItemsCorrected ==
    (script = "rf_classify" /\ pc = "retrain") =>
        \A i \in DOMAIN categories :
           categories[i] # before_validation.categories[i] =>
              /\ categories[i] \in ToSet(MAIN_CATS)
              /\ i \in DOMAIN answered.main

\* C7 as stated: whatever the validator answers, the run is not ended by an exception
\* between the validation and the CSV write.
C7_OutputNotGated ==
    script = "rf_classify" => ~(pc = "aborted" /\ abort_at = "final_print")

FailedBatches == {k \in DOMAIN batches : batches[k].failed}

\* The batches of one call were queried in order, each once.
QueriedOnceEach(call) ==
    LET starts == SelectSeq(batches, LAMBDA b : b.call = call)
        sample == IF call = "main" THEN main_sample_idx ELSE being_sample_idx
        done == IF call = "main" THEN pc \notin {"validate_main", "batch_main"}
                ELSE pc \notin {"validate_main", "batch_main", "sample_being",
                                "validate_being", "batch_being"}
    IN /\ \A k \in DOMAIN starts : starts[k].start = (k - 1) * batch_size
       /\ (done /\ starts # <<>>) => Len(starts) * batch_size >= Len(sample)

\* C8: a failed batch contributes no label; the batches of a call are queried in order,
\* once each, whatever failed before; without the requests library nothing is queried;
\* and when no label was collected, Step 7 leaves categories and subcategories as they
\* were before validation and does not retrain.
C8_FailuresContributeNothing ==
    /\ \A k \in FailedBatches :
          BatchOf(batches[k]) \cap DOMAIN LabelsOf(batches[k].call) = {}
    /\ QueriedOnceEach("main")
    /\ QueriedOnceEach("being")
    /\ ~HAS_REQUESTS => batches = <<>> /\ main_ollama = EmptyMap /\ being_ollama = EmptyMap
    /\ (/\ script = "rf_classify"
        /\ pc \in FromCorrections
        /\ main_ollama = EmptyMap
        /\ being_ollama = EmptyMap) =>
          /\ categories = before_validation.categories
          /\ subcategories = before_validation.subcategories
          /\ ~retrained
          /\ \A f \in fits : f[1] # "retrain"

\* A run ended in which the first batch of the main validation failed, the second was
\* still queried, and no label was collected.
C8_Witness ==
    /\ pc = "done"
    /\ \E j, k \in DOMAIN batches :
          /\ batches[j].call = "main" /\ batches[j].failed
          /\ batches[k].call = "main" /\ batches[k].start > batches[j].start
    /\ main_ollama = EmptyMap
    /\ being_ollama = EmptyMap

\* C9 as stated: a record for whose item the validator returned an accepted main
\* category has that category once Step 7 is done.
C9_ValidatorLabelFinal ==
    Corrected => \A i \in DOMAIN answered.main : categories[i] = answered.main[i]

\* C10: every category the rules of rf_classify.py can give is one of MAIN_CATS; from
\* the end of the fallback stage on, through validator corrections and retrain, every
\* record's category is one of MAIN_CATS, and so is every category of the CSV written.
C10_ClosedLabelSet ==
    script = "rf_classify" =>
        /\ \A k \in DOMAIN NON_BEING_RULES : NON_BEING_RULES[k].cat \in ToSet(MAIN_CATS)
        /\ Predicted => \A i \in DOMAIN categories : categories[i] \in ToSet(MAIN_CATS)
        /\ pc \in {"report", "done"} =>
              \A i \in DOMAIN out_csv : out_csv[i].category \in ToSet(MAIN_CATS)

\* rf_classify.py wrote its CSV after validator corrections and a retrain that
\* re-predicted a record.
C10_Witness ==
    /\ script = "rf_classify"
    /\ pc = "done"
    /\ \A i \in DOMAIN out_csv : out_csv[i].category = categories[i]
    /\ ollama_corrections_main > 0
    /\ retrained
    /\ unlabeled_idx \ DOMAIN main_ollama # {}

\* C11: classify_main gives Being to every name whose subject position holds a being
\* word, whatever non-Being rule matches elsewhere in the name; otherwise the category
\* of the first matching non-Being rule; and Being by the anywhere pattern, or None,
\* only when no non-Being rule matches.
C11_SubjectBeingFirst ==
    fn_res.op = "classify_main" =>
        LET lower == Lower(fn_arg.name)
            m == Matching(NON_BEING_RULES, lower)
        IN IF Search(being_patterns._BEING_SUBJECT, lower) THEN fn_res.val = "Being"
           ELSE IF m # {} THEN fn_res.val = NON_BEING_RULES[Min(m)].cat
           ELSE fn_res.val = (IF Search(being_patterns._BEING_ANYWHERE, lower) THEN "Being" ELSE None)

\* A name that begins with a being word and also matches a non-Being rule was
\* classified Being.
C11_Witness ==
    /\ fn_res.op = "classify_main"
    /\ Search(being_patterns._BEING_SUBJECT, Lower(fn_arg.name))
    /\ Matching(NON_BEING_RULES, Lower(fn_arg.name)) # {}
    /\ fn_res.val = "Being"

\* The start-anchored Being rules of cluster_tmi.py RULES.
TmiBeingStartRules == {k \in DOMAIN RULES : RULES[k].anch /\ RULES[k].cat = "Being"}

\* C12 as stated: cluster_tmi.classify_rule gives Being to every name that begins with
\* a being noun of the start-anchored Being rules, whatever later word matches a
\* non-Being rule.
C12_TmiSubjectBeingFirst ==
    (/\ fn_res.op = "classify_rule"
     /\ \E k \in TmiBeingStartRules : Search(RULES[k], Lower(fn_arg.name))) =>
        fn_res.val = "Being"

\* Every loaded record is matched by a rule.
AllRuleMatched ==
    /\ script \in Scripts
    /\ rows # <<>>
    /\ \A i \in DOMAIN rows : RuleCategory(script, rows[i]) # None

\* C13 as stated: when every record is matched by a rule, the run is not ended by the
\* vectorizer fit, the cross-validation or the classifier fit.
C13_NoClassifierNeeded ==
    AllRuleMatched => ~(pc = "aborted" /\ abort_at \in {"vectorize", "cv", "fit"})

\* The distinct categories the rules give to the loaded records.
RuleClasses == {RuleCategory(script, rows[i]) : i \in DOMAIN rows} \ {None}

\* C14 as stated: when the rule-labeled training set holds zero or one distinct class,
\* no record is given a classifier prediction and no output CSV is written.
C14_DegenerateIsFatal ==
    (script \in Scripts /\ Cardinality(RuleClasses) < 2) =>
        /\ \A i \in DOMAIN origin : origin[i] # "classifier"
        /\ pc \notin {"report", "done"}

\* rf_classify.py ended normally on one-class training data: the unmatched record holds
\* the only class, as predicted.
C14_DegenerateOutput ==
    /\ script = "rf_classify"
    /\ Cardinality(RuleClasses) = 1
    /\ pc = "done"
    /\ \E i \in unlabeled_idx : origin[i] = "classifier" /\ out_csv[i].category \in RuleClasses


\* ------------------------------------------------------------------------
\* C15: the output CSV holds every input row, in input order, with every input column's
\* value unchanged, and output row i carries the category computed for input row i.
CategoryOfRow(i) ==
    IF script = "cluster_tropes"
    THEN {categories[k] : k \in {j \in DOMAIN rows : rows[j] = input[i]}}
    ELSE {categories[i]}

C15_RoundTrip ==
    (script \in Scripts /\ pc = "done") =>
        /\ Len(out_csv) = Len(input)
        /\ \A i \in DOMAIN input :
             /\ out_csv[i].row = input[i]
             /\ out_csv[i].category \in CategoryOfRow(i)

\* ------------------------------------------------------------------------
\* C16: no script mutates its input in place: when a run has ended, the file the script
\* loaded its records from has the content it had when the script started.
C16_InputNotMutated ==
    (script \in PostScripts /\ pc \in {"done", "aborted"}) => disk.clustered = disk0.clustered

\* ------------------------------------------------------------------------
\* C17: when the input CSV lacks a required column, the run ends with an abort during
\* loading, before a report or a CSV file is written.
C17_MissingColumnAbortsAtLoad ==
    (script \in Scripts /\ ~(Required(script) \subseteq columns) /\ pc \in {"done", "aborted"})
        => (abort_at = "load" /\ report = None)

\* ------------------------------------------------------------------------
\* C18: confidence is only reported: a prediction that the validator replaced would have
\* been put before the validator whatever the confidences of the predictions were, so
\* no prediction is replaced because its confidence is low.
SamplesUnder(conf) ==
    LET all_max_conf == [i \in DOMAIN rows |-> IF i \in labeled_idx THEN ConfOne ELSE conf[i]]
    IN {ToSet(Take(s, 80)) :
          s \in Stratified(MAIN_CATS, 1, DOMAIN rows, before_validation.categories,
                           all_max_conf, 5, 4)}

C19_RuleMatchedRepeatable ==
    (script \in Scripts /\ pc = "done") =>
        \A i \in DOMAIN rows :
            RuleCategory(script, rows[i]) # None =>
                categories[i] = RuleCategory(script, rows[i])

\* A finished run of rf_classify.py on the ten-motif input in which the validator was
\* reached and every rule-matched record has the category of its rule: the run that the
\* runs violating C19 on that input differ from.
C19_OtherRun ==
    /\ script = "rf_classify"
    /\ pc = "done"
    /\ input = TmiTen
    /\ HAS_REQUESTS
    /\ \A i \in DOMAIN rows :
          RuleCategory(script, rows[i]) # None => categories[i] = RuleCategory(script, rows[i])

\* ------------------------------------------------------------------------
\* C20: the cross-validation is diagnostic only: the step changes no category and no
\* output, and it always hands the run on to the final fit, so that it cannot keep the
\* output from being written.
C20_CrossValidationDiagnosticOnly ==
    [][(script \in Scripts /\ pc = "cv") =>
          /\ pc' = "fit"
          /\ categories' = categories
          /\ out_csv' = out_csv
          /\ report' = report]_vars

\* A run the cross-validation ended although the training set holds two classes, on
\* which the final fit succeeds: no class has the five members the five folds need.
C20_AbortedByCrossValidation ==
    /\ script \in Scripts
    /\ pc = "aborted"
    /\ abort_at = "cv"
    /\ Cardinality({categories[i] : i \in labeled_idx}) >= 2

\* ------------------------------------------------------------------------
\* C21: is_animal of rf_classify.py and of split_being.py returns False whenever one of
\* _human_subject_words is among the first three words of the lowercased name, whatever
\* the chapter and whatever animal words the name holds.
C21_HumanWordExcludesAnimal ==
    (/\ fn_res.op \in {"is_animal", "sb_is_animal"}
     /\ ToSet(_first_words(fn_arg.name, 3)) \cap _human_subject_words # {}) =>
        fn_res.val = "False"

\* ------------------------------------------------------------------------
\* C22: for an empty label text classify_rule, classify_main and classify_being return
\* None, whatever the chapter.
C22_EmptyTextUnmatched ==
    (/\ fn_res.op \in {"classify_rule", "classify_main", "classify_being"}
     /\ fn_arg.name = <<>>) =>
        fn_res.val = None

\* ------------------------------------------------------------------------
\* The categories the module documentation of a script lists.
DocumentedCategories(s) ==
    IF s = "cluster_tmi"
    THEN {"Being", "Object", "Action", "Place", "Condition", "Origin", "Attribute", "Outcome"}
    ELSE {"Character", "Plot Device", "Setting", "Object", "Dialogue", "Visual/Style",
          "Narrative Device", "Relationship", "Action", "Genre/Tone"}

\* C23: every category cluster_tmi.py or cluster_tropes.py assigns to a record, by rule
\* or by prediction, is one of the categories the script's module documentation lists.
C23_OnlyDocumentedCategories ==
    script \in {"cluster_tmi", "cluster_tropes"} =>
        \A i \in DOMAIN categories :
            categories[i] # None => categories[i] \in DocumentedCategories(script)

\* ------------------------------------------------------------------------
\* C24: when rf_classify.py comes to write the CSV, every record that is not a Being has
\* its category as subcategory, and every Being has one of the six Being subcategories.
C24_SubcategoryConsistent ==
    (script = "rf_classify" /\ pc = "write_csv") =>
        \A i \in DOMAIN categories :
            IF categories[i] # "Being" THEN subcategories[i] = categories[i]
            ELSE subcategories[i] \in ToSet(BEING_SUBCATS)

\* ------------------------------------------------------------------------
\* C25: a label ollama_validate holds for a record is the label the validator returned
\* under the item number of that record's position in its batch: no record holds a label
\* returned for another item, also when records of a batch have the same motif name.
C25_LabelsByPosition ==
    script = "rf_classify" =>
        \A call \in {"main", "being"} :
            \A i \in DOMAIN LabelsOf(call) :
                /\ i \in DOMAIN answered[call]
                /\ LabelsOf(call)[i] = answered[call][i]

\* ------------------------------------------------------------------------
\* C27: in the validation details of the report of rf_classify.py a record is listed as
\* CORRECTED old->new exactly when the validator's label differed from the category old
\* the record had before validation and is the category new it has been given, and as
\* AGREE exactly when the validator's label was the category it had before validation.
C27_ReportTellsCorrections ==
    (script = "rf_classify" /\ pc = "done") =>
        \A idx \in DOMAIN main_ollama :
            LET before == before_validation.categories[idx]
                line == report_lines.main[idx]
            IN IF main_ollama[idx] = before THEN line.status = "AGREE"
               ELSE /\ line.status = "CORRECTED"
                    /\ line.old = before
                    /\ line.new = main_ollama[idx]

\* ------------------------------------------------------------------------
\* C28: in tropes_clustered.csv every row has a category that is not empty, and the rows
\* of one TropeID all have the category computed for the first row of that TropeID: the
\* category of the first rule its name and description match, or else one of the
\* classes of the classifier.
C28_CategoryOfFirstRow ==
    (script = "cluster_tropes" /\ pc = "done") =>
        \A i \in DOMAIN out_csv :
            LET csv == DictReader(input)
                first == Min({j \in DOMAIN csv : csv[j].id = csv[i].id})
                cat == out_csv[i].category
            IN /\ cat \notin {"", None}
               /\ cat = out_csv[first].category
               /\ IF RuleCategory(script, csv[first]) # None
                  THEN cat = RuleCategory(script, csv[first])
                  ELSE cat \in clf.classes

\* A written tropes_clustered.csv with a row that repeats the TropeID of an earlier row
\* under a name whose rule gives another category than the one the row has.
C28_Witness ==
    /\ script = "cluster_tropes"
    /\ pc = "done"
    /\ \E i \in DOMAIN out_csv :
          /\ \E j \in 1..(i - 1) : input[j].id = input[i].id
          /\ RuleCategory(script, DictReader(input)[i]) \notin {None, out_csv[i].category}

\* ------------------------------------------------------------------------
\* C26: classify_being of split_being.py gives a motif the first subcategory, in the
\* order Deity, Witch/Sorcerer, Spirit, Monster, Animal, Human, whose test it satisfies.
C26_DeityBeforeWitch ==
    fn_res.op = "sb_classify_being" =>
        LET name == fn_arg.name
            chapter == fn_arg.chapter
        IN fn_res.val =
              (IF sb_is_deity(name, chapter) THEN "Deity"
               ELSE IF sb_is_witch(name, chapter) THEN "Witch/Sorcerer"
               ELSE IF sb_is_spirit(name, chapter) THEN "Spirit"
               ELSE IF sb_is_monster(name, chapter) THEN "Monster"
               ELSE IF sb_is_animal(name, chapter) THEN "Animal"
               ELSE IF sb_is_human(name, chapter) THEN "Human"
               ELSE None)

\* ------------------------------------------------------------------------
\* The run of split_being.py at hand is past Step 5, and past Step 6.
ReportUpdated ==
    /\ script = "split_being"
    /\ pc \in {"write_csv", "visualize", "done"} \/ (pc = "aborted" /\ abort_at = "visualize")

CsvUpdated ==
    /\ script = "split_being"
    /\ pc \in {"visualize", "done"} \/ (pc = "aborted" /\ abort_at = "visualize")

\* C29: however many times split_being.py has run, cluster_report.txt holds at most one
\* BEING SUBCATEGORY BREAKDOWN section, and exactly one once a run has written the
\* report; the text before the section is the report cluster_tmi.py wrote; and
\* tmi_clustered.csv has at most one subcategory column, and exactly one once a run has
\* written the CSV.
C29_OneSectionOneColumn ==
    LET sections == {k \in DOMAIN disk.report.text : disk.report.text[k] = BeingMarker}
        cols == {k \in DOMAIN disk.clustered.fieldnames :
                   disk.clustered.fieldnames[k] = "subcategory"}
    IN /\ Cardinality(sections) <= 1
       /\ ReportUpdated => Cardinality(sections) = 1
       /\ disk.report.exists => BeforeMarker(disk.report.text) = ReportBase.text
       /\ Cardinality(cols) <= 1
       /\ CsvUpdated => Cardinality(cols) = 1

\* The second run of split_being.py on the same directory has written the report and
\* the CSV, after a first run that had written them too.
C29_Witness ==
    /\ runs = 2
    /\ CsvUpdated
    /\ \E k \in DOMAIN disk0.report.text : disk0.report.text[k] = BeingMarker
    /\ InFields("subcategory", disk0.clustered.fieldnames)

=============================================================================
